---- MODULE Spec2Model ----
(***************************************************************************)
(* MiniFileExplorer (src/src/main.cpp): the command-line tokenizer, the    *)
(* directory lister (ls, ls -s, ls -t), the recursive size aggregator, du, *)
(* the recursive search, the commands that change the filesystem and the   *)
(* command loop, as state machines over a modelled filesystem.             *)
(*                                                                         *)
(* Characters are their ASCII codes, strings are sequences of codes, so    *)
(* that std::string's byte-wise comparison, tolower and find are computed  *)
(* as the code computes them.                                              *)
(***************************************************************************)
EXTENDS Integers, Sequences, FiniteSets, TLC

VARIABLES
  tk,    \* a run of TokenizeCommandLine: line, loop position, locals, return value
  fs,    \* the filesystem: the set of entries below its root
  cwd,   \* the process's current working directory, a path from the root
  out,   \* what the command run since the last prompt computed and printed
  stdin, \* the lines of standard input not yet read
  pc     \* where main is: "prompt" in its loop, "exited" after it

vars == <<tk, fs, cwd, out, stdin, pc>>

(***************************************************************************)
(* Characters                                                              *)
(***************************************************************************)
Backslash == 92
SingleQuote == 39
DoubleQuote == 34
Space == 32
Tab == 9
Newline == 10
CarriageReturn == 13
Slash == 47
Dot == 46

\* the longest line the tokenizer is run on
MaxLineLen == 5

\* the characters lines are drawn from:
\* "a" and the characters the tokenizer treats specially
LineChars == {97, Space, Tab, SingleQuote, DoubleQuote, Backslash}

RECURSIVE SeqsUpTo(_, _)
SeqsUpTo(S, n) ==
  IF n = 0 THEN {<<>>}
  ELSE LET shorter == SeqsUpTo(S, n - 1)
       IN shorter \cup {Append(s, c) : s \in {t \in shorter : Len(t) = n - 1}, c \in S}

Lines == SeqsUpTo(LineChars, MaxLineLen)

(***************************************************************************)
(* TokenizeCommandLine (main.cpp 88-155)                                   *)
(***************************************************************************)
\* the locals of TokenizeCommandLine before the loop (lines 90-95)
TokLocals ==
  [tokens |-> <<>>, current |-> <<>>,
   in_single_quote |-> FALSE, in_double_quote |-> FALSE, escape_next |-> FALSE]

\* the lambda flush (lines 97-102); the first one appends current even when
\* it is empty
flushEvenWhenEmpty(st) == [st EXCEPT !.tokens = Append(@, st.current), !.current = <<>>]

flush(st) ==
  IF st.current # <<>>
  THEN [st EXCEPT !.tokens = Append(@, st.current), !.current = <<>>]
  ELSE st

\* line 143
IsSeparatorSpaceOnly(ch) == ch = Space

IsSeparator(ch) == ch = Space \/ ch = Tab \/ ch = Newline \/ ch = CarriageReturn

\* one pass of the loop body (lines 105-147) on character ch
ScanCharEscapeKeepsBackslash(st, ch) ==
  IF st.escape_next
  THEN [st EXCEPT !.current = Append(@, ch), !.escape_next = FALSE]
  ELSE IF ch = Backslash
  THEN [st EXCEPT !.escape_next = TRUE, !.current = Append(@, ch)]
  ELSE IF st.in_single_quote
  THEN IF ch = SingleQuote
       THEN [st EXCEPT !.in_single_quote = FALSE]
       ELSE [st EXCEPT !.current = Append(@, ch)]
  ELSE IF st.in_double_quote
  THEN IF ch = DoubleQuote
       THEN [st EXCEPT !.in_double_quote = FALSE]
       ELSE [st EXCEPT !.current = Append(@, ch)]
  ELSE IF ch = SingleQuote
  THEN [st EXCEPT !.in_single_quote = TRUE]
  ELSE IF ch = DoubleQuote
  THEN [st EXCEPT !.in_double_quote = TRUE]
  ELSE IF IsSeparator(ch)
  THEN flush(st)
  ELSE [st EXCEPT !.current = Append(@, ch)]

ScanChar(st, ch) ==
  IF st.escape_next
  THEN [st EXCEPT !.current = Append(@, ch), !.escape_next = FALSE]
  ELSE IF ch = Backslash
  THEN [st EXCEPT !.escape_next = TRUE]
  ELSE IF st.in_single_quote
  THEN IF ch = SingleQuote
       THEN [st EXCEPT !.in_single_quote = FALSE]
       ELSE [st EXCEPT !.current = Append(@, ch)]
  ELSE IF st.in_double_quote
  THEN IF ch = DoubleQuote
       THEN [st EXCEPT !.in_double_quote = FALSE]
       ELSE [st EXCEPT !.current = Append(@, ch)]
  ELSE IF ch = SingleQuote
  THEN [st EXCEPT !.in_single_quote = TRUE]
  ELSE IF ch = DoubleQuote
  THEN [st EXCEPT !.in_double_quote = TRUE]
  ELSE IF IsSeparator(ch)
  THEN flush(st)
  ELSE [st EXCEPT !.current = Append(@, ch)]

\* std::nullopt, and a returned token list
NullOpt == [has_value |-> FALSE, value |-> <<>>]
Some(v) == [has_value |-> TRUE, value |-> v]

\* the end of TokenizeCommandLine (lines 150-154)
FinishIgnoresEscape(st) ==
  IF st.in_single_quote \/ st.in_double_quote
  THEN NullOpt
  ELSE Some(flush(st).tokens)

Finish(st) ==
  IF st.escape_next \/ st.in_single_quote \/ st.in_double_quote
  THEN NullOpt
  ELSE Some(flush(st).tokens)

\* the loop of line 104 from position i on
RECURSIVE ScanFrom(_, _, _)
ScanFrom(st, line, i) ==
  IF i > Len(line) THEN st ELSE ScanFrom(ScanChar(st, line[i]), line, i + 1)

TokenizeCommandLine(line) == Finish(ScanFrom(TokLocals, line, 1))

(***************************************************************************)
(* The filesystem                                                          *)
(*                                                                         *)
(* An entry is [path, kind, size, size_ok, mtime, time_ok, listable, hard]: *)
(* path is the sequence of names from the root, kind is "file", "dir",     *)
(* "other" (fifo, socket, ...) or "symlink" (a symbolic link to a path     *)
(* outside the tree at which nothing exists; a link to something that      *)
(* exists is an entry of that thing's kind), size is the byte size of a    *)
(* file and                                                                *)
(* size_ok whether stat gives it, mtime is the modification time in ticks  *)
(* and time_ok whether it can be read, listable is whether a directory can *)
(* be opened for listing; when it cannot, hard tells why: FALSE is         *)
(* permission denied (EACCES), TRUE any other error (EIO, EMFILE, ...).    *)
(* The root is a listable directory that is no entry.                      *)
(***************************************************************************)
\* the deepest path, the most entries, the largest small file, the latest tick
MaxDepth == 3
MaxEntries == 3
MaxFileSize == 1
MaxTick == 3
\* ticks of the file clock per second of time_t
TicksPerSecond == 2

\* the names entries may have: "a", "a." and "B"
NameA == <<97>>
NameADot == <<97, Dot>>
NameUpperB == <<66>>
Names == {NameA, NameADot, NameUpperB}

RootPath == <<>>
Parent(p) == SubSeq(p, 1, Len(p) - 1)
BaseName(p) == p[Len(p)]

\* a directory entry has the name p (lstat); fs::exists(p) follows symbolic
\* links (stat), so it is false for a link to nothing
Present(tree, p) == \E e \in tree : e.path = p
Exists(tree, p) == p = RootPath \/ \E e \in tree : e.path = p /\ e.kind # "symlink"
Lookup(tree, p) == CHOOSE e \in tree : e.path = p
IsDirectory(tree, p) == p = RootPath \/ \E e \in tree : e.path = p /\ e.kind = "dir"
IsRegularFile(tree, p) == \E e \in tree : e.path = p /\ e.kind = "file"
Listable(tree, p) == p = RootPath \/ \E e \in tree : e.path = p /\ e.kind = "dir" /\ e.listable
Children(tree, d) == {e \in tree : Len(e.path) = Len(d) + 1 /\ Parent(e.path) = d}

\* the orders in which a directory's names may be enumerated
RECURSIVE Perms(_)
Perms(S) ==
  IF S = {} THEN {<<>>}
  ELSE UNION {{<<x>> \o q : q \in Perms(S \ {x})} : x \in S}

EnumOrders == Perms(Names)

\* fs::directory_iterator(d, skip_permission_denied): the children of d in the
\* order ord of their names; nothing when d cannot be opened (lines 201-202)
RECURSIVE DirectoryEntriesFrom(_, _, _, _)
DirectoryEntriesFrom(tree, d, ord, i) ==
  IF i > Len(ord) THEN <<>>
  ELSE (IF Present(tree, Append(d, ord[i])) THEN <<Lookup(tree, Append(d, ord[i]))>> ELSE <<>>)
       \o DirectoryEntriesFrom(tree, d, ord, i + 1)

DirectoryEntries(tree, d, ord) ==
  IF Listable(tree, d) THEN DirectoryEntriesFrom(tree, d, ord, 1) ELSE <<>>

\* opening directory p fails with an error that skip_permission_denied does
\* not cover: the iterator sets ec and becomes the end iterator
OpenFails(tree, p) ==
  \E e \in tree : e.path = p /\ e.kind = "dir" /\ ~e.listable /\ e.hard

\* fs::recursive_directory_iterator(root, skip_permission_denied) in the loop
\* "!ec && it != end; it.increment(ec)" (lines 447-449, 600-602): the entries the
\* loop body sees, a directory before what it holds; a directory that cannot
\* be opened for lack of permission is not entered, one that fails to open for
\* another reason sets ec, which ends the loop
NoWalk == [seq |-> <<>>, ec |-> FALSE]

RECURSIVE WalkEntries(_, _, _)
RECURSIVE RecursiveWalk(_, _, _)
WalkEntries(tree, es, ord) ==
  IF es = <<>> THEN NoWalk
  ELSE LET sub == IF Head(es).kind = "dir"
                  THEN RecursiveWalk(tree, Head(es).path, ord)
                  ELSE NoWalk
       IN IF sub.ec
          THEN [seq |-> <<Head(es)>> \o sub.seq, ec |-> TRUE]
          ELSE LET rest == WalkEntries(tree, Tail(es), ord)
               IN [seq |-> <<Head(es)>> \o sub.seq \o rest.seq, ec |-> rest.ec]

RecursiveWalk(tree, root, ord) ==
  IF OpenFails(tree, root) THEN [seq |-> <<>>, ec |-> TRUE]
  ELSE WalkEntries(tree, DirectoryEntries(tree, root, ord), ord)

RecursiveDirectoryEntries(tree, root, ord) == RecursiveWalk(tree, root, ord).seq

\* the loop body of CalculateDirectorySizeBytes (lines 603-612)
RECURSIVE SumFileSizes(_)
SumFileSizes(es) ==
  IF es = <<>> THEN 0
  ELSE (IF Head(es).kind = "file" /\ Head(es).size_ok THEN Head(es).size ELSE 0)
       + SumFileSizes(Tail(es))

\* CalculateDirectorySizeBytes (lines 594-616)
CalculateDirectorySizeBytesOneLevel(tree, dir_path, ord) ==
  SumFileSizes(DirectoryEntries(tree, dir_path, ord))

CalculateDirectorySizeBytes(tree, dir_path, ord) ==
  SumFileSizes(RecursiveDirectoryEntries(tree, dir_path, ord))

(***************************************************************************)
(* Paths given as strings                                                  *)
(***************************************************************************)
\* the components of a path string, split at "/"
RECURSIVE SplitFrom(_, _, _)
SplitFrom(str, i, cur) ==
  IF i > Len(str) THEN (IF cur = <<>> THEN <<>> ELSE <<cur>>)
  ELSE IF str[i] = Slash
  THEN (IF cur = <<>> THEN <<>> ELSE <<cur>>) \o SplitFrom(str, i + 1, <<>>)
  ELSE SplitFrom(str, i + 1, Append(cur, str[i]))

SplitPath(str) == SplitFrom(str, 1, <<>>)

NoPath == [ok |-> FALSE, path |-> RootPath]

\* the operating system's path walk: every component but the last is looked up
\* in a directory; "." stays, ".." goes up
RECURSIVE ResolveFrom(_, _, _, _)
ResolveFrom(tree, cur, comps, i) ==
  IF i > Len(comps) THEN [ok |-> TRUE, path |-> cur]
  ELSE IF ~IsDirectory(tree, cur) THEN NoPath
  ELSE LET c == comps[i]
           nxt == IF c = <<Dot>> THEN cur
                  ELSE IF c = <<Dot, Dot>>
                  THEN (IF cur = RootPath THEN cur ELSE Parent(cur))
                  ELSE Append(cur, c)
       IN IF Exists(tree, nxt) THEN ResolveFrom(tree, nxt, comps, i + 1) ELSE NoPath

\* the entry a path string names from directory dir, as stat(2) finds it
Resolve(tree, dir, str) ==
  IF str = <<>> THEN NoPath
  ELSE LET r == ResolveFrom(tree, IF str[1] = Slash THEN RootPath ELSE dir,
                            SplitPath(str), 1)
       IN IF r.ok /\ str[Len(str)] = Slash /\ ~IsDirectory(tree, r.path)
          THEN NoPath ELSE r

(***************************************************************************)
(* What a command leaves behind: its name, the message or table it prints  *)
(***************************************************************************)
NoOutput ==
  [cmd |-> "none", msg |-> "", mode |-> "", items |-> <<>>, size_calls |-> 0,
   arg |-> <<>>, bytes |-> 0, value |-> 0, unit |-> "", results |-> <<>>,
   asked |-> FALSE, failed |-> {}]

\* a printed column: a number, or "-"
Dash == [dash |-> TRUE, num |-> 0]
Shown(n) == [dash |-> FALSE, num |-> n]

(***************************************************************************)
(* ls (HandleLsCommand, lines 171-281)                                     *)
(***************************************************************************)
\* FileTimeToTimeT (lines 47-54): file_time - file_clock::now() + system_clock::now()
\* in whole seconds. The two clocks are read one after the other, in an order
\* the compiler chooses, so the result is the file time moved by the ticks that
\* passed between the two reads: back when the system clock is read first,
\* forward when it is read second. ClockDrifts are these shifts, and
\* clock_drift[n] is the shift in the conversion made for the entry named n.
\* to_time_t rounds towards zero.
ClockDrifts == {-1, 0, 1}
ClockReads == [Names -> ClockDrifts]
TowardsZero(ticks) ==
  IF ticks >= 0 THEN ticks \div TicksPerSecond ELSE -((-ticks) \div TicksPerSecond)
FileTimeToTimeT(file_time, drift) == TowardsZero(file_time + drift)

\* the clock reads of one listing of directory d: one conversion for each entry
\* whose modification time can be read; reads that give an entry the same
\* second as no shift at all are the one case of no shift
ClockReadsIn(tree, d) ==
  {clock_drift \in ClockReads :
     \A n \in Names :
       \/ clock_drift[n] = 0
       \/ \E e \in Children(tree, d) :
            /\ BaseName(e.path) = n /\ e.time_ok
            /\ FileTimeToTimeT(e.mtime, clock_drift[n]) # FileTimeToTimeT(e.mtime, 0)}

\* fs::is_empty(path, empty_ec) && !empty_ec (line 218)
IsEmptyDirectory(tree, e) == e.listable /\ Children(tree, e.path) = {}

\* the body of the loop over the directory (lines 203-239): the LsItem of entry e;
\* walked records that CalculateDirectorySizeBytes was called for it
LsItemOfAlwaysSized(tree, mode, e, ord, clock_drift) ==
  LET is_dir == e.kind = "dir"
      is_file == e.kind = "file"
      total == CalculateDirectorySizeBytes(tree, e.path, ord)
      sized == is_dir
  IN [name |-> IF is_dir THEN Append(BaseName(e.path), Slash) ELSE BaseName(e.path),
      type |-> IF is_dir THEN "Dir" ELSE "File",
      size |-> IF sized THEN Shown(total)
               ELSE IF is_file /\ e.size_ok THEN Shown(e.size) ELSE Dash,
      modify_time |-> IF e.time_ok THEN Shown(FileTimeToTimeT(e.mtime, clock_drift[BaseName(e.path)])) ELSE Dash,
      size_bytes |-> IF sized THEN total
                     ELSE IF is_file /\ e.size_ok THEN e.size ELSE 0,
      modify_time_t |-> IF e.time_ok THEN FileTimeToTimeT(e.mtime, clock_drift[BaseName(e.path)]) ELSE 0,
      is_dir |-> is_dir,
      is_empty_dir |-> sized /\ IsEmptyDirectory(tree, e),
      walked |-> sized]

LsItemOf(tree, mode, e, ord, clock_drift) ==
  LET is_dir == e.kind = "dir"
      is_file == e.kind = "file"
      total == CalculateDirectorySizeBytes(tree, e.path, ord)
      sized == mode = "kSortSize" /\ is_dir
  IN [name |-> IF is_dir THEN Append(BaseName(e.path), Slash) ELSE BaseName(e.path),
      type |-> IF is_dir THEN "Dir" ELSE "File",
      size |-> IF sized THEN Shown(total)
               ELSE IF is_file /\ e.size_ok THEN Shown(e.size) ELSE Dash,
      modify_time |-> IF e.time_ok THEN Shown(FileTimeToTimeT(e.mtime, clock_drift[BaseName(e.path)])) ELSE Dash,
      size_bytes |-> IF sized THEN total
                     ELSE IF is_file /\ e.size_ok THEN e.size ELSE 0,
      modify_time_t |-> IF e.time_ok THEN FileTimeToTimeT(e.mtime, clock_drift[BaseName(e.path)]) ELSE 0,
      is_dir |-> is_dir,
      is_empty_dir |-> sized /\ IsEmptyDirectory(tree, e),
      walked |-> sized]

\* std::string's operator< : byte by byte, a proper prefix first
RECURSIVE StringLessFrom(_, _, _)
StringLessFrom(a, b, i) ==
  IF i > Len(b) THEN FALSE
  ELSE IF i > Len(a) THEN TRUE
  ELSE IF a[i] # b[i] THEN a[i] < b[i]
  ELSE StringLessFrom(a, b, i + 1)

StringLess(a, b) == StringLessFrom(a, b, 1)

\* the enumeration orders that differ for tree: the names no entry of the tree
\* has are enumerated nowhere, so they are put last, in one order
EnumOrdersIn(tree) ==
  LET used == {BaseName(e.path) : e \in tree}
  IN {ord \in EnumOrders :
        \A i, j \in 1..Len(ord) :
          (i < j /\ ord[i] \notin used) => (ord[j] \notin used /\ StringLess(ord[i], ord[j]))}

\* the comparator of ls -t (lines 243-248)
TimeLessAscending(a, b) ==
  IF a.modify_time_t # b.modify_time_t
  THEN a.modify_time_t < b.modify_time_t
  ELSE StringLess(a.name, b.name)

TimeLess(a, b) ==
  IF a.modify_time_t # b.modify_time_t
  THEN a.modify_time_t > b.modify_time_t
  ELSE StringLess(a.name, b.name)

\* the comparator of ls -s (lines 250-258)
SizeLessNoEmptyLast(a, b) ==
  IF a.size_bytes # b.size_bytes
  THEN a.size_bytes > b.size_bytes
  ELSE StringLess(a.name, b.name)

SizeLess(a, b) ==
  IF a.is_empty_dir # b.is_empty_dir
  THEN ~a.is_empty_dir
  ELSE IF a.size_bytes # b.size_bytes
  THEN a.size_bytes > b.size_bytes
  ELSE StringLess(a.name, b.name)

\* the comparator std::sort is given in mode (lines 242-259)
ItemLess(mode, a, b) == IF mode = "kSortTime" THEN TimeLess(a, b) ELSE SizeLess(a, b)

\* std::sort: the items in the one order the comparator allows (no two items
\* of a listing compare equal: their names differ)
RECURSIVE InsertSorted(_, _, _)
InsertSorted(sorted, x, mode) ==
  IF sorted = <<>> THEN <<x>>
  ELSE IF ItemLess(mode, x, Head(sorted)) THEN <<x>> \o sorted
  ELSE <<Head(sorted)>> \o InsertSorted(Tail(sorted), x, mode)

RECURSIVE SortItems(_, _)
SortItems(items, mode) ==
  IF items = <<>> THEN <<>>
  ELSE InsertSorted(SortItems(Tail(items), mode), Head(items), mode)

\* the option strings "-s" and "-t" (lines 179, 181)
OptSize == <<45, 115>>
OptTime == <<45, 116>>

\* lines 177-190: the mode the tokens ask for, "invalid" for "Invalid option: ls"
LsMode(tokens) ==
  IF Len(tokens) = 2
  THEN (IF tokens[2] = OptSize THEN "kSortSize"
        ELSE IF tokens[2] = OptTime THEN "kSortTime" ELSE "invalid")
  ELSE IF Len(tokens) # 1 THEN "invalid" ELSE "kNormal"

\* lines 200-240: the items in enumeration order
LsItems(tree, dir, mode, ord, clock_drift) ==
  LET es == DirectoryEntries(tree, dir, ord)
  IN [i \in 1..Len(es) |-> LsItemOf(tree, mode, es[i], ord, clock_drift)]

\* lines 242-259
LsSorted(items, mode) ==
  IF mode = "kSortTime" \/ mode = "kSortSize" THEN SortItems(items, mode) ELSE items

HandleLsCommand(tree, dir, tokens, ord, clock_drift) ==
  LET mode == LsMode(tokens)
      items == LsSorted(LsItems(tree, dir, mode, ord, clock_drift), mode)
  IN IF mode = "invalid"
     THEN [NoOutput EXCEPT !.cmd = "ls", !.msg = "Invalid option: ls", !.mode = mode]
     ELSE [NoOutput EXCEPT !.cmd = "ls", !.msg = "table", !.mode = mode,
                            !.items = items,
                            !.size_calls = Cardinality({i \in 1..Len(items) : items[i].walked})]

(***************************************************************************)
(* du (HandleDuCommand, lines 618-644)                                     *)
(***************************************************************************)
kb == 1024
mb == 1024 * 1024

\* lines 637-643: the number and the unit printed for a total
DuReportTruncating(bytes) ==
  IF bytes >= mb
  THEN [value |-> bytes \div mb, unit |-> "MB"]
  ELSE [value |-> bytes \div kb, unit |-> "KB"]

DuReport(bytes) ==
  IF bytes >= mb
  THEN [value |-> (bytes + (mb \div 2)) \div mb, unit |-> "MB"]
  ELSE [value |-> (bytes + (kb \div 2)) \div kb, unit |-> "KB"]

HandleDuCommand(tree, dir, tokens, ord) ==
  IF Len(tokens) < 2
  THEN [NoOutput EXCEPT !.cmd = "du", !.msg = "Missing directory name"]
  ELSE LET arg == tokens[2]
           r == Resolve(tree, dir, arg)
       IN IF ~r.ok \/ ~IsDirectory(tree, r.path)
          THEN [NoOutput EXCEPT !.cmd = "du", !.msg = "Invalid directory", !.arg = arg]
          ELSE LET bytes == CalculateDirectorySizeBytes(tree, r.path, ord)
                   report == DuReport(bytes)
               IN [NoOutput EXCEPT !.cmd = "du", !.msg = "Total size", !.arg = arg,
                                    !.bytes = bytes, !.value = report.value,
                                    !.unit = report.unit]

(***************************************************************************)
(* search (HandleSearchCommand, lines 424-484)                             *)
(***************************************************************************)
\* ToLowerAscii (lines 40-45): tolower of the "C" locale on every byte
ToLowerAscii(value) ==
  [i \in 1..Len(value) |-> IF value[i] \in 65..90 THEN value[i] + 32 ELSE value[i]]

\* std::string::find(needle) != npos
Found(hay, needle) ==
  \E i \in 0..(Len(hay) - Len(needle)) : SubSeq(hay, i + 1, i + Len(needle)) = needle

\* the path of an entry as a string: its names joined by "/"
RECURSIVE PathString(_)
PathString(p) ==
  IF p = <<>> THEN <<>>
  ELSE IF Len(p) = 1 THEN p[1]
  ELSE PathString(Parent(p)) \o <<Slash>> \o BaseName(p)

\* line 453: does the entry pass the filter
SearchMatchesWholePath(e, keyword) ==
  Found(ToLowerAscii(PathString(e.path)), ToLowerAscii(keyword))

SearchMatches(e, keyword) ==
  Found(ToLowerAscii(BaseName(e.path)), ToLowerAscii(keyword))

\* lines 447-472: the results, in the order of the walk
RECURSIVE SearchResults(_, _)
SearchResults(es, keyword) ==
  IF es = <<>> THEN <<>>
  ELSE (IF SearchMatches(Head(es), keyword)
        THEN <<[path |-> Head(es).path, is_dir |-> Head(es).kind = "dir",
                type |-> IF Head(es).kind = "dir" THEN "Dir" ELSE "File"]>>
        ELSE <<>>)
       \o SearchResults(Tail(es), keyword)

HandleSearchCommand(tree, dir, tokens, ord) ==
  IF Len(tokens) < 2
  THEN [NoOutput EXCEPT !.cmd = "search", !.msg = "Missing keyword"]
  ELSE LET keyword == tokens[2]
           results == SearchResults(RecursiveDirectoryEntries(tree, dir, ord), keyword)
       IN [NoOutput EXCEPT !.cmd = "search", !.arg = keyword, !.results = results,
                            !.msg = IF results = <<>> THEN "No results found"
                                    ELSE "Search results"]

(***************************************************************************)
(* The filesystems and the inputs the commands are run on                  *)
(***************************************************************************)
FileEntry(p, s, ok) ==
  [path |-> p, kind |-> "file", size |-> s, size_ok |-> ok,
   mtime |-> 0, time_ok |-> TRUE, listable |-> FALSE, hard |-> FALSE]
DirEntry(p, l) ==
  [path |-> p, kind |-> "dir", size |-> 0, size_ok |-> TRUE,
   mtime |-> 0, time_ok |-> TRUE, listable |-> l, hard |-> FALSE]
OtherEntry(p) ==
  [path |-> p, kind |-> "other", size |-> 0, size_ok |-> TRUE,
   mtime |-> 0, time_ok |-> TRUE, listable |-> FALSE, hard |-> FALSE]
\* a symbolic link to nothing: is_directory, is_regular_file, file_size and
\* last_write_time all follow the link and find nothing
SymlinkEntry(p) ==
  [path |-> p, kind |-> "symlink", size |-> 0, size_ok |-> FALSE,
   mtime |-> 0, time_ok |-> FALSE, listable |-> FALSE, hard |-> FALSE]
\* a directory that fails to open with an error other than permission denied
FailingDirEntry(p) == [DirEntry(p, FALSE) EXCEPT !.hard = TRUE]

\* what may be at path p: a file of a small size, a file whose size cannot be
\* read, a directory that can or cannot be listed, something else
SmallChoices(p) ==
  {FileEntry(p, s, TRUE) : s \in 0..MaxFileSize}
    \cup {FileEntry(p, MaxFileSize, FALSE)}
    \cup {DirEntry(p, l) : l \in BOOLEAN}
    \cup {OtherEntry(p)}

\* an empty file or an empty directory, with a modification time or none readable
TimedChoices(p) ==
  {[e EXCEPT !.mtime = t] : e \in {FileEntry(p, 0, TRUE), DirEntry(p, TRUE)}, t \in 0..MaxTick}
    \cup {[e EXCEPT !.time_ok = FALSE] : e \in {FileEntry(p, 0, TRUE), DirEntry(p, TRUE)}}

\* the paths at most depth deep, with names from names, at which tree has
\* nothing yet and could
FreePaths(tree, depth, names) ==
  {Append(d, n) : d \in {q \in {RootPath} \cup {e.path : e \in tree} :
                          IsDirectory(tree, q) /\ Len(q) < depth},
                  n \in names}
    \ {e.path : e \in tree}

\* the trees of at most k entries, at most depth deep, with names from names
RECURSIVE Trees(_, _, _, _)
Trees(k, depth, names, timed) ==
  IF k = 0 THEN {{}}
  ELSE LET smaller == Trees(k - 1, depth, names, timed)
       IN smaller \cup
          UNION {{t \cup {e} : e \in UNION {IF timed THEN TimedChoices(p) ELSE SmallChoices(p) :
                                            p \in FreePaths(t, depth, names)}} :
                 t \in {u \in smaller : Cardinality(u) = k - 1}}

\* deep trees over the names "a" and "B"
DeepTrees == Trees(MaxEntries, MaxDepth, {NameA, NameUpperB}, FALSE)

\* one directory of entries with modification times
TimedTrees == Trees(Cardinality(Names), 1, Names, TRUE)

\* under name n: nothing, one entry, or a directory holding one file "a"
TopChoices(n) ==
  {{}} \cup {{e} : e \in SmallChoices(<<n>>)}
    \cup {{DirEntry(<<n>>, TRUE), FileEntry(<<n, NameA>>, s, TRUE)} : s \in 0..MaxFileSize}

\* one directory of files, empty directories and directories with content
ListingTrees ==
  {ta \cup tb \cup tc : ta \in TopChoices(NameA), tb \in TopChoices(NameADot),
                        tc \in TopChoices(NameUpperB)}

\* totals around the thresholds of du: 0, half a unit, a unit, 1,048 and 1,500
DuTotals ==
  {0, 1, 1048, 1500}
    \cup {q * (kb \div 2) + d : q \in 1..4, d \in {-1, 0, 1}}
    \cup {q * (mb \div 2) + d : q \in 1..5, d \in {-1, 0, 1}}
    \cup {mb - (kb \div 2) + d : d \in {-1, 0, 1}}

\* a directory "a" holding one file of a large size
BigTrees == {{DirEntry(<<NameA>>, TRUE), FileEntry(<<NameA, NameA>>, t, TRUE)} : t \in DuTotals}

InitTrees == DeepTrees \cup TimedTrees \cup ListingTrees \cup BigTrees

\* under name n of directory d: nothing, a file of the largest small size, or a
\* directory that fails to open
FaultUnder(d, n) ==
  {{}, {FileEntry(Append(d, n), MaxFileSize, TRUE)}, {FailingDirEntry(Append(d, n))}}

\* at the top under name n: the same, a directory that may not be listed, or a
\* directory holding such entries under "a" and "B"
FaultTop(n) ==
  FaultUnder(RootPath, n) \cup {{DirEntry(<<n>>, FALSE)}}
    \cup {{DirEntry(<<n>>, TRUE)} \cup x \cup y :
            x \in FaultUnder(<<n>>, NameA), y \in FaultUnder(<<n>>, NameUpperB)}

\* trees in which directories fail to open next to entries that are in order
FaultTrees == {x \cup y : x \in FaultTop(NameA), y \in FaultTop(NameUpperB)}

\* the command names "ls", "du", "search"
CmdLs == <<108, 115>>
CmdDu == <<100, 117>>
CmdSearch == <<115, 101, 97, 114, 99, 104>>

\* ls, ls -s, ls -t, ls -a, ls -s -t
LsInputs == {<<CmdLs>>, <<CmdLs, OptSize>>, <<CmdLs, OptTime>>, <<CmdLs, <<45, 97>> >>,
             <<CmdLs, OptSize, OptTime>>}

\* du, du <name>, du ., du a/B, du ..
DuInputs ==
  {<<CmdDu>>} \cup {<<CmdDu, n>> : n \in Names}
    \cup {<<CmdDu, <<Dot>> >>, <<CmdDu, <<97, Slash, 66>> >>, <<CmdDu, <<Dot, Dot>> >>}

\* search, search A, search b, search a.
Keywords == {<<65>>, <<98>>, <<97, Dot>>}
SearchInputs == {<<CmdSearch>>} \cup {<<CmdSearch, k>> : k \in Keywords}

(***************************************************************************)
(* The commands as steps of the program                                    *)
(***************************************************************************)
\* the program at its prompt (main, lines 673-694), in any directory of any tree
Init ==
  /\ fs \in InitTrees
  /\ cwd \in {RootPath} \cup {e.path : e \in {x \in fs : x.kind = "dir"}}
  /\ out = NoOutput
  /\ tk = [line |-> <<>>, pos |-> 1, st |-> TokLocals, done |-> FALSE, tokens_or |-> NullOpt]
  /\ stdin = <<>>
  /\ pc = "prompt"

\* lines 722-725
LsCommand ==
  \E tokens \in LsInputs, ord \in EnumOrdersIn(fs), clock_drift \in ClockReadsIn(fs, cwd) :
    /\ out = NoOutput
    /\ out' = HandleLsCommand(fs, cwd, tokens, ord, clock_drift)
    /\ UNCHANGED <<tk, fs, cwd, stdin, pc>>

\* lines 758-761
DuCommand ==
  \E tokens \in DuInputs, ord \in EnumOrdersIn(fs) :
    /\ out = NoOutput
    /\ out' = HandleDuCommand(fs, cwd, tokens, ord)
    /\ UNCHANGED <<tk, fs, cwd, stdin, pc>>

\* lines 746-749
SearchCommand ==
  \E tokens \in SearchInputs, ord \in EnumOrdersIn(fs) :
    /\ out = NoOutput
    /\ out' = HandleSearchCommand(fs, cwd, tokens, ord)
    /\ UNCHANGED <<tk, fs, cwd, stdin, pc>>

\* lines 693-694: the handler has returned, the loop prompts again
Prompt ==
  /\ out # NoOutput
  /\ out' = NoOutput
  /\ UNCHANGED <<tk, fs, cwd, stdin, pc>>

Next == LsCommand \/ DuCommand \/ SearchCommand \/ Prompt

Spec == Init /\ [][Next]_vars

\* the same program in a filesystem some of whose directories fail to open
FaultInit ==
  /\ fs \in FaultTrees
  /\ cwd \in {RootPath} \cup {e.path : e \in {x \in fs : x.kind = "dir"}}
  /\ out = NoOutput
  /\ tk = [line |-> <<>>, pos |-> 1, st |-> TokLocals, done |-> FALSE, tokens_or |-> NullOpt]
  /\ stdin = <<>>
  /\ pc = "prompt"

SpecFault == FaultInit /\ [][Next]_vars

(***************************************************************************)
(* The commands that change the filesystem or the current directory        *)
(*                                                                         *)
(* A handler is given the filesystem, the current directory, the tokens,   *)
(* the lines still unread on standard input, and the outcome of the        *)
(* primitive it calls when the filesystem model does not decide it         *)
(* (permissions, devices, space): TRUE when the primitive succeeds.  It    *)
(* returns the filesystem, the current directory and the unread lines it   *)
(* leaves, and what it printed.                                            *)
(***************************************************************************)
Returned(tree, dir, o, input) == [fs |-> tree, cwd |-> dir, out |-> o, stdin |-> input]

\* the file clock when an entry is written: the latest tick
Now == MaxTick

\* the answer that confirms (lines 349, 527), "~" (line 654), "." and ".."
Yes == <<121>>
Tilde == <<126>>
DotName == <<Dot>>
DotDotName == <<Dot, Dot>>

\* GetHomeDir (lines 28-38): the path in HOME, here the root "/"
GetHomeDir == <<Slash>>

\* fs::path::filename of a path string: its last component
FileName(str) ==
  LET comps == SplitPath(str) IN IF comps = <<>> THEN <<>> ELSE comps[Len(comps)]

\* path a is path b or lies above it
IsPrefix(a, b) == Len(a) <= Len(b) /\ SubSeq(b, 1, Len(a)) = a

\* where a path string that names nothing yet would be created: in the
\* directory its parent_path names, under its last component
NoTarget == [ok |-> FALSE, exists |-> FALSE, path |-> RootPath]

Target(tree, dir, str) ==
  LET r == Resolve(tree, dir, str)
      comps == SplitPath(str)
      parent == ResolveFrom(tree, IF str # <<>> /\ str[1] = Slash THEN RootPath ELSE dir,
                            SubSeq(comps, 1, Len(comps) - 1), 1)
  IN IF r.ok THEN [ok |-> TRUE, exists |-> TRUE, path |-> r.path]
     ELSE IF /\ comps # <<>>
             /\ str[Len(str)] # Slash
             /\ FileName(str) \notin {DotName, DotDotName}
             /\ parent.ok /\ IsDirectory(tree, parent.path)
     THEN [ok |-> TRUE, exists |-> FALSE, path |-> Append(parent.path, FileName(str))]
     ELSE NoTarget

\* the tree after something was created, removed or renamed in directory d:
\* the directory's modification time is the time of the change
WithModified(tree, d) ==
  {IF e.path = d THEN [e EXCEPT !.mtime = Now] ELSE e : e \in tree}

\* std::ofstream(name) on a name that does not exist: an empty regular file;
\* on a symbolic link to nothing the file is made where the link points, and
\* the name is from then on that of an empty regular file
CreateFile(tree, p) ==
  IF Present(tree, p)
  THEN {e \in tree : e.path # p} \cup {[FileEntry(p, 0, TRUE) EXCEPT !.mtime = Now]}
  ELSE WithModified(tree, Parent(p)) \cup {[FileEntry(p, 0, TRUE) EXCEPT !.mtime = Now]}

\* fs::create_directory
CreateDirectory(tree, p) ==
  WithModified(tree, Parent(p)) \cup {[DirEntry(p, TRUE) EXCEPT !.mtime = Now]}

\* fs::remove of a file or of an empty directory
Remove(tree, p) == WithModified({e \in tree : e.path # p}, Parent(p))

\* fs::copy_file(src, dst, options): can it succeed, and the tree when it does
CopyFileFails(tree, src, dst, overwrite, copy_ok) ==
  \/ ~copy_ok
  \/ Present(tree, dst) /\ ~Exists(tree, dst)
  \/ ~IsRegularFile(tree, src)
  \/ Exists(tree, dst) /\ (~overwrite \/ ~IsRegularFile(tree, dst) \/ dst = src)

CopyFile(tree, src, dst) ==
  LET copy == [FileEntry(dst, Lookup(tree, src).size, Lookup(tree, src).size_ok)
                 EXCEPT !.mtime = Now]
  IN IF Exists(tree, dst)
     THEN {IF e.path = dst THEN copy ELSE e : e \in tree}
     ELSE WithModified(tree, Parent(dst)) \cup {copy}

\* fs::rename(src, dst) onto a name at which fs::exists found nothing: can it
\* succeed, and the tree when it does, the entry and all below it under the new
\* name. A symbolic link to nothing at dst is replaced by a source that is no
\* directory; a directory cannot be renamed onto it.
RenameFails(tree, dir, src, dst, rename_ok) ==
  \/ ~rename_ok
  \/ IsDirectory(tree, src) /\ Present(tree, dst)
  \/ IsPrefix(src, dst)
  \/ IsPrefix(src, dir)

Rename(tree, src, dst) ==
  WithModified(
    WithModified(
      {IF IsPrefix(src, e.path)
       THEN [e EXCEPT !.path = dst \o SubSeq(e.path, Len(src) + 1, Len(e.path))]
       ELSE e : e \in {x \in tree : x.path # dst}},
      Parent(src)),
    Parent(dst))

\* PrintHelp (lines 68-86)
PrintHelp == [NoOutput EXCEPT !.cmd = "help", !.msg = "Supported commands"]

\* HandleCdCommand (lines 646-671)
HandleCdCommand(tree, dir, tokens, input, chdir_ok) ==
  IF Len(tokens) < 2
  THEN Returned(tree, dir, [NoOutput EXCEPT !.cmd = "cd", !.msg = "Missing path"], input)
  ELSE LET arg == tokens[2]
           target == IF arg = Tilde THEN GetHomeDir ELSE arg
           st == Resolve(tree, dir, target)
           said(m) == [NoOutput EXCEPT !.cmd = "cd", !.msg = m, !.arg = arg]
       IN IF target = <<>> \/ ~st.ok
          THEN Returned(tree, dir, said("Invalid directory"), input)
          ELSE IF ~IsDirectory(tree, st.path)
          THEN Returned(tree, dir, said("Not a directory"), input)
          ELSE IF ~chdir_ok
          THEN Returned(tree, dir, [said("Invalid directory") EXCEPT !.failed = {"chdir"}], input)
          ELSE Returned(tree, st.path, said(""), input)

\* HandleTouchCommand (lines 283-302)
HandleTouchCommand(tree, dir, tokens, input, create_ok) ==
  IF Len(tokens) < 2
  THEN Returned(tree, dir, [NoOutput EXCEPT !.cmd = "touch", !.msg = "Missing filename"], input)
  ELSE LET name == tokens[2]
           at == Target(tree, dir, name)
           said(m) == [NoOutput EXCEPT !.cmd = "touch", !.msg = m, !.arg = name]
       IN IF Resolve(tree, dir, name).ok
          THEN Returned(tree, dir, said("File already exists"), input)
          ELSE IF ~at.ok \/ ~create_ok
          THEN Returned(tree, dir, [said("Failed to create file") EXCEPT !.failed = {"create"}],
                        input)
          ELSE Returned(CreateFile(tree, at.path), dir, said(""), input)

\* a mkdir that enters the directory it has made
HandleMkdirCommandEnters(tree, dir, tokens, input, create_ok) ==
  IF Len(tokens) < 2
  THEN Returned(tree, dir,
                [NoOutput EXCEPT !.cmd = "mkdir", !.msg = "Missing directory name"], input)
  ELSE LET name == tokens[2]
           at == Target(tree, dir, name)
           said(m) == [NoOutput EXCEPT !.cmd = "mkdir", !.msg = m, !.arg = name]
       IN IF Resolve(tree, dir, name).ok
          THEN Returned(tree, dir, said("Directory already exists"), input)
          ELSE IF ~at.ok \/ ~create_ok \/ Present(tree, at.path)
          THEN Returned(tree, dir,
                        [said("Failed to create directory") EXCEPT !.failed = {"create"}], input)
          ELSE Returned(CreateDirectory(tree, at.path), at.path, said(""), input)

\* HandleMkdirCommand (lines 304-322)
HandleMkdirCommand(tree, dir, tokens, input, create_ok) ==
  IF Len(tokens) < 2
  THEN Returned(tree, dir,
                [NoOutput EXCEPT !.cmd = "mkdir", !.msg = "Missing directory name"], input)
  ELSE LET name == tokens[2]
           at == Target(tree, dir, name)
           said(m) == [NoOutput EXCEPT !.cmd = "mkdir", !.msg = m, !.arg = name]
       IN IF Resolve(tree, dir, name).ok
          THEN Returned(tree, dir, said("Directory already exists"), input)
          ELSE IF ~at.ok \/ ~create_ok \/ Present(tree, at.path)
          THEN Returned(tree, dir,
                        [said("Failed to create directory") EXCEPT !.failed = {"create"}], input)
          ELSE Returned(CreateDirectory(tree, at.path), dir, said(""), input)

\* a rm that leaves an answer other than y in the input, for main to read
HandleRmCommandAnswerUnread(tree, dir, tokens, input, remove_ok) ==
  IF Len(tokens) < 2
  THEN Returned(tree, dir, [NoOutput EXCEPT !.cmd = "rm", !.msg = "Missing filename"], input)
  ELSE LET name == tokens[2]
           path == Resolve(tree, dir, name)
           said(m) == [NoOutput EXCEPT !.cmd = "rm", !.msg = m, !.arg = name]
           asked(m) == [said(m) EXCEPT !.asked = TRUE]
       IN IF ~path.ok
          THEN Returned(tree, dir, said("File not found"), input)
          ELSE IF ~IsRegularFile(tree, path.path)
          THEN Returned(tree, dir, said("Not a file"), input)
          ELSE IF input = <<>>
          THEN Returned(tree, dir, asked(""), input)
          ELSE IF Head(input) # Yes
          THEN Returned(tree, dir, asked(""), input)
          ELSE IF ~remove_ok
          THEN Returned(tree, dir,
                        [asked("Failed to delete file") EXCEPT !.failed = {"remove"}],
                        Tail(input))
          ELSE Returned(Remove(tree, path.path), dir, asked(""), Tail(input))

\* HandleRmCommand (lines 324-356); the mutant deletes on any answer
HandleRmCommandAnyAnswer(tree, dir, tokens, input, remove_ok) ==
  IF Len(tokens) < 2
  THEN Returned(tree, dir, [NoOutput EXCEPT !.cmd = "rm", !.msg = "Missing filename"], input)
  ELSE LET name == tokens[2]
           path == Resolve(tree, dir, name)
           said(m) == [NoOutput EXCEPT !.cmd = "rm", !.msg = m, !.arg = name]
           asked(m) == [said(m) EXCEPT !.asked = TRUE]
       IN IF ~path.ok
          THEN Returned(tree, dir, said("File not found"), input)
          ELSE IF ~IsRegularFile(tree, path.path)
          THEN Returned(tree, dir, said("Not a file"), input)
          ELSE IF input = <<>>
          THEN Returned(tree, dir, asked(""), input)
          ELSE IF ~remove_ok
          THEN Returned(tree, dir,
                        [asked("Failed to delete file") EXCEPT !.failed = {"remove"}],
                        Tail(input))
          ELSE Returned(Remove(tree, path.path), dir, asked(""), Tail(input))

HandleRmCommand(tree, dir, tokens, input, remove_ok) ==
  IF Len(tokens) < 2
  THEN Returned(tree, dir, [NoOutput EXCEPT !.cmd = "rm", !.msg = "Missing filename"], input)
  ELSE LET name == tokens[2]
           path == Resolve(tree, dir, name)
           said(m) == [NoOutput EXCEPT !.cmd = "rm", !.msg = m, !.arg = name]
           asked(m) == [said(m) EXCEPT !.asked = TRUE]
       IN IF ~path.ok
          THEN Returned(tree, dir, said("File not found"), input)
          ELSE IF ~IsRegularFile(tree, path.path)
          THEN Returned(tree, dir, said("Not a file"), input)
          ELSE IF input = <<>>
          THEN Returned(tree, dir, asked(""), input)
          ELSE IF Head(input) # Yes
          THEN Returned(tree, dir, asked(""), Tail(input))
          ELSE IF ~remove_ok
          THEN Returned(tree, dir,
                        [asked("Failed to delete file") EXCEPT !.failed = {"remove"}],
                        Tail(input))
          ELSE Returned(Remove(tree, path.path), dir, asked(""), Tail(input))

\* HandleRmdirCommand (lines 358-383); the mutant skips the test of line 376
HandleRmdirCommandNoEmptyTest(tree, dir, tokens, input, remove_ok) ==
  IF Len(tokens) < 2
  THEN Returned(tree, dir,
                [NoOutput EXCEPT !.cmd = "rmdir", !.msg = "Missing directory name"], input)
  ELSE LET name == tokens[2]
           path == Resolve(tree, dir, name)
           said(m) == [NoOutput EXCEPT !.cmd = "rmdir", !.msg = m, !.arg = name]
       IN IF ~path.ok
          THEN Returned(tree, dir, said("Directory not found"), input)
          ELSE IF ~IsDirectory(tree, path.path)
          THEN Returned(tree, dir, said("Not a directory"), input)
          ELSE IF ~remove_ok \/ path.path = RootPath \/ path.path = dir
          THEN Returned(tree, dir,
                        [said("Failed to delete directory") EXCEPT !.failed = {"remove"}], input)
          ELSE Returned(Remove({e \in tree : ~IsPrefix(path.path, e.path) \/ e.path = path.path},
                               path.path),
                        dir, said(""), input)

HandleRmdirCommand(tree, dir, tokens, input, remove_ok) ==
  IF Len(tokens) < 2
  THEN Returned(tree, dir,
                [NoOutput EXCEPT !.cmd = "rmdir", !.msg = "Missing directory name"], input)
  ELSE LET name == tokens[2]
           path == Resolve(tree, dir, name)
           said(m) == [NoOutput EXCEPT !.cmd = "rmdir", !.msg = m, !.arg = name]
       IN IF ~path.ok
          THEN Returned(tree, dir, said("Directory not found"), input)
          ELSE IF ~IsDirectory(tree, path.path)
          THEN Returned(tree, dir, said("Not a directory"), input)
          ELSE IF ~Listable(tree, path.path) \/ Children(tree, path.path) # {}
          THEN Returned(tree, dir, said("Directory not empty"), input)
          ELSE IF ~remove_ok \/ path.path = RootPath \/ path.path = dir
          THEN Returned(tree, dir,
                        [said("Failed to delete directory") EXCEPT !.failed = {"remove"}], input)
          ELSE Returned(Remove(tree, path.path), dir, said(""), input)

\* HandleStatCommand (lines 393-422)
HandleStatCommand(tree, dir, tokens, input) ==
  IF Len(tokens) < 2
  THEN Returned(tree, dir, [NoOutput EXCEPT !.cmd = "stat", !.msg = "Missing target"], input)
  ELSE LET name == tokens[2]
           st == Resolve(tree, dir, name)
           said(m) == [NoOutput EXCEPT !.cmd = "stat", !.msg = m, !.arg = name]
       IN IF ~st.ok
          THEN Returned(tree, dir, said("Target not found"), input)
          ELSE Returned(tree, dir,
                        [said("Type") EXCEPT !.mode = IF IsDirectory(tree, st.path)
                                                      THEN "Dir" ELSE "File"],
                        input)

\* lines 502-518 and 554-570: the destination of cp and mv, dst_arg or, when
\* dst_arg is a directory, dst_arg / src.filename(); not ok when its parent is
\* no directory
Destination(tree, dir, src_arg, dst_arg) ==
  LET d == Resolve(tree, dir, dst_arg)
  IN IF d.ok /\ IsDirectory(tree, d.path)
     THEN (IF FileName(src_arg) \in {<<>>, DotName, DotDotName}
           THEN [ok |-> TRUE, exists |-> TRUE, path |-> d.path]
           ELSE [ok |-> TRUE, exists |-> Exists(tree, Append(d.path, FileName(src_arg))),
                 path |-> Append(d.path, FileName(src_arg))])
     ELSE Target(tree, dir, dst_arg)

\* HandleCpCommand (lines 486-536); the mutant overwrites without asking
HandleCpCommandNoQuestion(tree, dir, tokens, input, copy_ok) ==
  IF Len(tokens) < 3
  THEN Returned(tree, dir, [NoOutput EXCEPT !.cmd = "cp", !.msg = "Invalid target path"], input)
  ELSE LET src == Resolve(tree, dir, tokens[2])
           dst_file == Destination(tree, dir, tokens[2], tokens[3])
           said(m) == [NoOutput EXCEPT !.cmd = "cp", !.msg = m, !.arg = tokens[3]]
       IN IF ~src.ok \/ ~IsRegularFile(tree, src.path)
          THEN Returned(tree, dir, said("Source not found"), input)
          ELSE IF ~dst_file.ok
          THEN Returned(tree, dir, said("Invalid target path"), input)
          ELSE IF dst_file.exists /\ IsDirectory(tree, dst_file.path)
          THEN Returned(tree, dir, said("Invalid target path"), input)
          ELSE IF CopyFileFails(tree, src.path, dst_file.path, dst_file.exists, copy_ok)
          THEN Returned(tree, dir, [said("Invalid target path") EXCEPT !.failed = {"copy"}],
                        input)
          ELSE Returned(CopyFile(tree, src.path, dst_file.path), dir, said(""), input)

HandleCpCommand(tree, dir, tokens, input, copy_ok) ==
  IF Len(tokens) < 3
  THEN Returned(tree, dir, [NoOutput EXCEPT !.cmd = "cp", !.msg = "Invalid target path"], input)
  ELSE LET src == Resolve(tree, dir, tokens[2])
           dst_file == Destination(tree, dir, tokens[2], tokens[3])
           said(m) == [NoOutput EXCEPT !.cmd = "cp", !.msg = m, !.arg = tokens[3]]
           asked(m) == [said(m) EXCEPT !.asked = dst_file.exists]
           rest == IF dst_file.exists THEN Tail(input) ELSE input
       IN IF ~src.ok \/ ~IsRegularFile(tree, src.path)
          THEN Returned(tree, dir, said("Source not found"), input)
          ELSE IF ~dst_file.ok
          THEN Returned(tree, dir, said("Invalid target path"), input)
          ELSE IF dst_file.exists /\ IsDirectory(tree, dst_file.path)
          THEN Returned(tree, dir, said("Invalid target path"), input)
          ELSE IF dst_file.exists /\ input = <<>>
          THEN Returned(tree, dir, asked(""), input)
          ELSE IF dst_file.exists /\ Head(input) # Yes
          THEN Returned(tree, dir, asked(""), rest)
          ELSE IF CopyFileFails(tree, src.path, dst_file.path, dst_file.exists, copy_ok)
          THEN Returned(tree, dir, [asked("Invalid target path") EXCEPT !.failed = {"copy"}],
                        rest)
          ELSE Returned(CopyFile(tree, src.path, dst_file.path), dir, asked(""), rest)

\* HandleMvCommand (lines 538-592)
HandleMvCommand(tree, dir, tokens, input, rename_ok, copy_ok, remove_ok) ==
  IF Len(tokens) < 3
  THEN Returned(tree, dir, [NoOutput EXCEPT !.cmd = "mv", !.msg = "Invalid target path"], input)
  ELSE LET src == Resolve(tree, dir, tokens[2])
           dst_final == Destination(tree, dir, tokens[2], tokens[3])
           said(m) == [NoOutput EXCEPT !.cmd = "mv", !.msg = m, !.arg = tokens[3]]
       IN IF ~src.ok
          THEN Returned(tree, dir, said("Source not found"), input)
          ELSE IF ~dst_final.ok
          THEN Returned(tree, dir, said("Invalid target path"), input)
          ELSE IF dst_final.exists
          THEN Returned(tree, dir, said("Invalid target path"), input)
          ELSE IF ~RenameFails(tree, dir, src.path, dst_final.path, rename_ok)
          THEN Returned(Rename(tree, src.path, dst_final.path), dir, said(""), input)
          ELSE IF IsRegularFile(tree, src.path)
          THEN (IF CopyFileFails(tree, src.path, dst_final.path, FALSE, copy_ok)
                THEN Returned(tree, dir,
                              [said("Invalid target path") EXCEPT !.failed = {"rename", "copy"}],
                              input)
                ELSE IF ~remove_ok
                THEN Returned(CopyFile(tree, src.path, dst_final.path), dir,
                              [said("Invalid target path") EXCEPT !.failed = {"rename", "remove"}],
                              input)
                ELSE Returned(Remove(CopyFile(tree, src.path, dst_final.path), src.path), dir,
                              [said("") EXCEPT !.failed = {"rename"}], input))
          ELSE Returned(tree, dir,
                        [said("Invalid target path") EXCEPT !.failed = {"rename"}], input)

(***************************************************************************)
(* main (lines 673-767): the command loop over the lines of standard input *)
(***************************************************************************)
\* the command names of lines 710-758
CmdExit == <<101, 120, 105, 116>>
CmdHelp == <<104, 101, 108, 112>>
CmdCd == <<99, 100>>
CmdTouch == <<116, 111, 117, 99, 104>>
CmdMkdir == <<109, 107, 100, 105, 114>>
CmdRm == <<114, 109>>
CmdRmdir == <<114, 109, 100, 105, 114>>
CmdStat == <<115, 116, 97, 116>>
CmdCp == <<99, 112>>
CmdMv == <<109, 118>>

KnownCommands ==
  {CmdExit, CmdHelp, CmdCd, CmdLs, CmdTouch, CmdMkdir, CmdRm, CmdRmdir, CmdStat,
   CmdSearch, CmdCp, CmdMv, CmdDu}

\* the most lines standard input holds
MaxInputLines == 3

\* the lines that change what later commands see: touch a, mkdir B, rm a,
\* rm a., rmdir B, cd B, cp a a., and the answer y
CoreLines ==
  {<<116, 111, 117, 99, 104, 32, 97>>,
   <<109, 107, 100, 105, 114, 32, 66>>,
   <<114, 109, 32, 97>>,
   <<114, 109, 32, 97, 46>>,
   <<114, 109, 100, 105, 114, 32, 66>>,
   <<99, 100, 32, 66>>,
   <<99, 112, 32, 97, 32, 97, 46>>,
   Yes}

\* the lines standard input may end with: the lines above, and
\*   exit, exit a, help, the empty line, a line with an unclosed quote,
\*   cd, cd .., cd a, cd ~, ls, ls -s, ls -t, touch, touch a., mkdir a., rm B,
\*   rmdir a, rmdir a., stat, stat a, stat B, search a, cp a B, cp a, cp a. a, mv a a.,
\*   mv B a., mv a B, mv a. a, du B, and the answers n, Y, "y " and yes
LastLines ==
  CoreLines \cup
  {CmdExit,
   <<101, 120, 105, 116, 32, 97>>,
   CmdHelp,
   <<>>,
   <<114, 109, 32, 39, 97>>,
   CmdCd,
   <<99, 100, 32, 46, 46>>,
   <<99, 100, 32, 97>>,
   <<99, 100, 32, 126>>,
   CmdLs,
   <<108, 115, 32, 45, 115>>,
   <<108, 115, 32, 45, 116>>,
   CmdTouch,
   <<116, 111, 117, 99, 104, 32, 97, 46>>,
   <<109, 107, 100, 105, 114, 32, 97, 46>>,
   <<114, 109, 32, 66>>,
   <<114, 109, 100, 105, 114, 32, 97>>,
   <<114, 109, 100, 105, 114, 32, 97, 46>>,
   CmdStat,
   <<115, 116, 97, 116, 32, 97>>,
   <<115, 116, 97, 116, 32, 66>>,
   <<115, 101, 97, 114, 99, 104, 32, 97>>,
   <<99, 112, 32, 97, 32, 66>>,
   <<99, 112, 32, 97>>,
   <<99, 112, 32, 97, 46, 32, 97>>,
   <<109, 118, 32, 97, 32, 97, 46>>,
   <<109, 118, 32, 66, 32, 97, 46>>,
   <<109, 118, 32, 97, 32, 66>>,
   <<109, 118, 32, 97, 46, 32, 97>>,
   <<100, 117, 32, 66>>,
   <<110>>,
   <<89>>,
   <<121, 32>>,
   <<121, 101, 115>>}

\* what standard input may hold: lines that change the state, then any line
Scripts ==
  SeqsUpTo(CoreLines, MaxInputLines)
    \cup {Append(s, l) : s \in SeqsUpTo(CoreLines, MaxInputLines - 1), l \in LastLines}

\* the directories the loop is started in:
\*   an empty one;
\*   files a (1 byte) and a. (empty);
\*   file a and an empty directory B;
\*   file a (oldest), file a. (newest) and directory B holding an empty file a;
\*   a file a whose size cannot be read, and a directory B that may be entered
\*   but not listed, holding a file a.;
\*   an entry a that is neither file nor directory, and an empty file a.;
\*   a file a, a symbolic link a. to nothing, and an empty directory B
StartTrees ==
  {{},
   {FileEntry(<<NameA>>, 1, TRUE), FileEntry(<<NameADot>>, 0, TRUE)},
   {FileEntry(<<NameA>>, 1, TRUE), DirEntry(<<NameUpperB>>, TRUE)},
   {FileEntry(<<NameA>>, 1, TRUE),
    [FileEntry(<<NameADot>>, 0, TRUE) EXCEPT !.mtime = MaxTick],
    [DirEntry(<<NameUpperB>>, TRUE) EXCEPT !.mtime = TicksPerSecond],
    FileEntry(<<NameUpperB, NameA>>, 0, TRUE)},
   {FileEntry(<<NameA>>, 1, FALSE), DirEntry(<<NameUpperB>>, FALSE),
    FileEntry(<<NameUpperB, NameADot>>, 1, TRUE)},
   {OtherEntry(<<NameA>>), FileEntry(<<NameADot>>, 0, TRUE)},
   {FileEntry(<<NameA>>, 1, TRUE), SymlinkEntry(<<NameADot>>), DirEntry(<<NameUpperB>>, TRUE)}}

\* while (true) with its break and continue statements: where main is after
\* the branch of the loop body that was taken
LoopControlBreaksOnError(branch) ==
  IF branch \in {"eof", "exit", "parse"} THEN "exited" ELSE "prompt"

LoopControl(branch) == IF branch \in {"eof", "exit"} THEN "exited" ELSE "prompt"

\* main at its first prompt (lines 673-694)
MainInit ==
  /\ fs \in StartTrees
  /\ cwd = RootPath
  /\ out = NoOutput
  /\ tk = [line |-> <<>>, pos |-> 1, st |-> TokLocals, done |-> FALSE, tokens_or |-> NullOpt]
  /\ stdin \in Scripts
  /\ pc = "prompt"

\* line 699 on every line standard input may hold
TokensOf == [line \in CoreLines \cup LastLines |-> TokenizeCommandLine(line)]

\* lines 695-699: what TokenizeCommandLine returns for the line std::getline
\* reads at the prompt; nothing when main is past its loop or the input is over
TokensRead == IF pc = "prompt" /\ stdin # <<>> THEN {TokensOf[Head(stdin)]} ELSE {}

\* lines 700-709: the line has tokens and the first is cmd
IsCommand(tokens_or, cmd) ==
  /\ tokens_or.has_value
  /\ tokens_or.value # <<>>
  /\ tokens_or.value[1] = cmd

\* the handler has returned r, or the branch printed r.out: the loop goes on
\* or ends, as the branch taken says
Continues(r, branch) ==
  /\ fs' = r.fs
  /\ cwd' = r.cwd
  /\ out' = r.out
  /\ stdin' = r.stdin
  /\ pc' = LoopControl(branch)
  /\ UNCHANGED tk

\* lines 695-697: end of input at the prompt
MainEof ==
  /\ pc = "prompt"
  /\ stdin = <<>>
  /\ Continues(Returned(fs, cwd, [NoOutput EXCEPT !.cmd = "eof"], stdin), "eof")

\* lines 699-703
MainParseError ==
  \E tokens_or \in TokensRead :
    /\ ~tokens_or.has_value
    /\ Continues(Returned(fs, cwd,
                          [NoOutput EXCEPT !.cmd = "parse",
                                           !.msg = "Invalid command: unmatched quote"],
                          Tail(stdin)), "parse")

\* lines 705-707
MainEmptyLine ==
  \E tokens_or \in TokensRead :
    /\ tokens_or.has_value
    /\ tokens_or.value = <<>>
    /\ Continues(Returned(fs, cwd, [NoOutput EXCEPT !.cmd = "empty"], Tail(stdin)), "empty")

\* lines 710-713
MainExit ==
  \E tokens_or \in TokensRead :
    /\ IsCommand(tokens_or, CmdExit)
    /\ Continues(Returned(fs, cwd,
                          [NoOutput EXCEPT !.cmd = "exit",
                                           !.msg = "MiniFileExplorer closed successfully"],
                          Tail(stdin)), "exit")

\* lines 714-717
MainHelp ==
  \E tokens_or \in TokensRead :
    /\ IsCommand(tokens_or, CmdHelp)
    /\ Continues(Returned(fs, cwd, PrintHelp, Tail(stdin)), "help")

\* lines 718-721
MainCd ==
  \E tokens_or \in TokensRead, chdir_ok \in BOOLEAN :
    /\ IsCommand(tokens_or, CmdCd)
    /\ Continues(HandleCdCommand(fs, cwd, tokens_or.value, Tail(stdin), chdir_ok), "cd")

\* lines 722-725
MainLs ==
  \E tokens_or \in TokensRead, ord \in EnumOrdersIn(fs), clock_drift \in ClockReadsIn(fs, cwd) :
    /\ IsCommand(tokens_or, CmdLs)
    /\ Continues(Returned(fs, cwd,
                          HandleLsCommand(fs, cwd, tokens_or.value, ord, clock_drift),
                          Tail(stdin)), "ls")

\* lines 726-729
MainTouch ==
  \E tokens_or \in TokensRead, create_ok \in BOOLEAN :
    /\ IsCommand(tokens_or, CmdTouch)
    /\ Continues(HandleTouchCommand(fs, cwd, tokens_or.value, Tail(stdin), create_ok),
                 "touch")

\* lines 730-733
MainMkdir ==
  \E tokens_or \in TokensRead, create_ok \in BOOLEAN :
    /\ IsCommand(tokens_or, CmdMkdir)
    /\ Continues(HandleMkdirCommand(fs, cwd, tokens_or.value, Tail(stdin), create_ok),
                 "mkdir")

\* lines 734-737
MainRm ==
  \E tokens_or \in TokensRead, remove_ok \in BOOLEAN :
    /\ IsCommand(tokens_or, CmdRm)
    /\ Continues(HandleRmCommand(fs, cwd, tokens_or.value, Tail(stdin), remove_ok), "rm")

\* lines 738-741
MainRmdir ==
  \E tokens_or \in TokensRead, remove_ok \in BOOLEAN :
    /\ IsCommand(tokens_or, CmdRmdir)
    /\ Continues(HandleRmdirCommand(fs, cwd, tokens_or.value, Tail(stdin), remove_ok),
                 "rmdir")

\* lines 742-745
MainStat ==
  \E tokens_or \in TokensRead :
    /\ IsCommand(tokens_or, CmdStat)
    /\ Continues(HandleStatCommand(fs, cwd, tokens_or.value, Tail(stdin)), "stat")

\* lines 746-749
MainSearch ==
  \E tokens_or \in TokensRead, ord \in EnumOrdersIn(fs) :
    /\ IsCommand(tokens_or, CmdSearch)
    /\ Continues(Returned(fs, cwd, HandleSearchCommand(fs, cwd, tokens_or.value, ord),
                          Tail(stdin)), "search")

\* lines 750-753
MainCp ==
  \E tokens_or \in TokensRead, copy_ok \in BOOLEAN :
    /\ IsCommand(tokens_or, CmdCp)
    /\ Continues(HandleCpCommand(fs, cwd, tokens_or.value, Tail(stdin), copy_ok), "cp")

\* lines 754-757
MainMv ==
  \E tokens_or \in TokensRead, rename_ok \in BOOLEAN, copy_ok \in BOOLEAN,
     remove_ok \in BOOLEAN :
    /\ IsCommand(tokens_or, CmdMv)
    /\ Continues(HandleMvCommand(fs, cwd, tokens_or.value, Tail(stdin),
                                 rename_ok, copy_ok, remove_ok), "mv")

\* lines 758-761
MainDu ==
  \E tokens_or \in TokensRead, ord \in EnumOrdersIn(fs) :
    /\ IsCommand(tokens_or, CmdDu)
    /\ Continues(Returned(fs, cwd, HandleDuCommand(fs, cwd, tokens_or.value, ord),
                          Tail(stdin)), "du")

\* line 763
MainUnknown ==
  \E tokens_or \in TokensRead :
    /\ tokens_or.has_value
    /\ tokens_or.value # <<>>
    /\ tokens_or.value[1] \notin KnownCommands
    /\ Continues(Returned(fs, cwd,
                          [NoOutput EXCEPT !.cmd = "unknown", !.msg = "Unknown command",
                                           !.arg = tokens_or.value[1]],
                          Tail(stdin)), "unknown")

MainNext ==
  \/ MainEof \/ MainParseError \/ MainEmptyLine \/ MainExit \/ MainHelp
  \/ MainCd \/ MainLs \/ MainTouch \/ MainMkdir \/ MainRm \/ MainRmdir
  \/ MainStat \/ MainSearch \/ MainCp \/ MainMv \/ MainDu \/ MainUnknown

SpecMain == MainInit /\ [][MainNext]_vars

(***************************************************************************)
(* The tokenizer run one character at a time                               *)
(***************************************************************************)
\* tk: the line being tokenized, the loop position, the locals, the return value
TokStart(line) ==
  [line |-> line, pos |-> 1, st |-> TokLocals, done |-> FALSE, tokens_or |-> NullOpt]

TokInit ==
  /\ tk \in {TokStart(line) : line \in Lines}
  /\ fs = {}
  /\ cwd = RootPath
  /\ out = NoOutput
  /\ stdin = <<>>
  /\ pc = "prompt"

\* one iteration of the for loop of line 104
TokScanChar ==
  /\ ~tk.done
  /\ tk.pos <= Len(tk.line)
  /\ tk' = [tk EXCEPT !.st = ScanChar(tk.st, tk.line[tk.pos]), !.pos = tk.pos + 1]
  /\ UNCHANGED <<fs, cwd, out, stdin, pc>>

\* lines 150-154: the loop is over
TokReturn ==
  /\ ~tk.done
  /\ tk.pos > Len(tk.line)
  /\ tk' = [tk EXCEPT !.done = TRUE, !.tokens_or = Finish(tk.st)]
  /\ UNCHANGED <<fs, cwd, out, stdin, pc>>

TokNext == TokScanChar \/ TokReturn

SpecTok == TokInit /\ [][TokNext]_vars

(***************************************************************************)
(* main, lines 695-749, on one line: the line is tokenized one character   *)
(* at a time and its tokens are handed to the handler of its command. The  *)
(* lines are touch and search followed by every argument text over the     *)
(* characters the tokenizer treats specially.                              *)
(***************************************************************************)
\* the longest argument text after the command word
MaxArgLen == 4

ArgLines ==
  {cmd \o <<Space>> \o rest : cmd \in {CmdTouch, CmdSearch},
                              rest \in SeqsUpTo(LineChars, MaxArgLen)}

ArgInit ==
  /\ tk \in {TokStart(line) : line \in ArgLines}
  /\ fs \in {{}, {FileEntry(<<NameA>>, 1, TRUE)}}
  /\ cwd = RootPath
  /\ out = NoOutput
  /\ stdin = <<>>
  /\ pc = "prompt"

\* lines 699-703
ArgParseError ==
  /\ tk.done /\ out = NoOutput
  /\ ~tk.tokens_or.has_value
  /\ Continues(Returned(fs, cwd,
                        [NoOutput EXCEPT !.cmd = "parse",
                                         !.msg = "Invalid command: unmatched quote"],
                        stdin), "parse")

\* lines 726-729
ArgTouch ==
  \E create_ok \in BOOLEAN :
    /\ tk.done /\ out = NoOutput
    /\ IsCommand(tk.tokens_or, CmdTouch)
    /\ Continues(HandleTouchCommand(fs, cwd, tk.tokens_or.value, stdin, create_ok), "touch")

\* lines 746-749
ArgSearch ==
  \E ord \in EnumOrdersIn(fs) :
    /\ tk.done /\ out = NoOutput
    /\ IsCommand(tk.tokens_or, CmdSearch)
    /\ Continues(Returned(fs, cwd, HandleSearchCommand(fs, cwd, tk.tokens_or.value, ord),
                          stdin), "search")

ArgNext == TokScanChar \/ TokReturn \/ ArgParseError \/ ArgTouch \/ ArgSearch

SpecArgs == ArgInit /\ [][ArgNext]_vars

(***************************************************************************)
(* What a line says, read off the line itself (not off the scanner):       *)
(* which characters are escaped, which quote is open where, and the runs   *)
(* between separators.                                                     *)
(***************************************************************************)
\* character i is escaped: the backslashes just before it are odd in number
RECURSIVE RefEscaped(_, _)
RefEscaped(line, i) ==
  /\ i > 1
  /\ line[i - 1] = Backslash
  /\ ~RefEscaped(line, i - 1)

\* the quote open just before character i: "none", "single" or "double"
RECURSIVE RefQuoteBefore(_, _)
RefQuoteBefore(line, i) ==
  IF i = 1 THEN "none"
  ELSE LET q == RefQuoteBefore(line, i - 1)
           c == line[i - 1]
       IN IF RefEscaped(line, i - 1) \/ c = Backslash THEN q
          ELSE IF q = "none"
               THEN (IF c = SingleQuote THEN "single"
                     ELSE IF c = DoubleQuote THEN "double" ELSE "none")
          ELSE IF q = "single" THEN (IF c = SingleQuote THEN "none" ELSE "single")
          ELSE (IF c = DoubleQuote THEN "none" ELSE "double")

RefIsWhitespace(c) == c \in {Space, Tab, Newline, CarriageReturn}

\* what character i is: "lit" (goes to the token), "esc" (an escaping backslash),
\* "quote" (opens or closes a quote), "sep" (unquoted, unescaped whitespace)
RefRole(line, i) ==
  LET q == RefQuoteBefore(line, i)
      c == line[i]
  IN IF RefEscaped(line, i) THEN "lit"
     ELSE IF c = Backslash THEN "esc"
     ELSE IF q = "single" THEN (IF c = SingleQuote THEN "quote" ELSE "lit")
     ELSE IF q = "double" THEN (IF c = DoubleQuote THEN "quote" ELSE "lit")
     ELSE IF c = SingleQuote \/ c = DoubleQuote THEN "quote"
     ELSE IF RefIsWhitespace(c) THEN "sep"
     ELSE "lit"

\* at the end of the line: a backslash with nothing to escape, a quote not closed
RefDanglingEscape(line) ==
  Len(line) > 0 /\ line[Len(line)] = Backslash /\ ~RefEscaped(line, Len(line))

RefQuoteOpenAtEnd(line) == RefQuoteBefore(line, Len(line) + 1) # "none"

\* the last position of the run of non-separators that starts at i
RECURSIVE RefRunEnd(_, _)
RefRunEnd(line, i) ==
  IF i < Len(line) /\ RefRole(line, i + 1) # "sep" THEN RefRunEnd(line, i + 1) ELSE i

\* the literal characters of positions i..j
RECURSIVE RefLiterals(_, _, _)
RefLiterals(line, i, j) ==
  IF i > j THEN <<>>
  ELSE (IF RefRole(line, i) = "lit" THEN <<line[i]>> ELSE <<>>)
       \o RefLiterals(line, i + 1, j)

\* the maximal runs between separators, left to right, quote characters and
\* escaping backslashes removed
RECURSIVE RefRunsFrom(_, _)
RefRunsFrom(line, i) ==
  IF i > Len(line) THEN <<>>
  ELSE IF RefRole(line, i) = "sep" THEN RefRunsFrom(line, i + 1)
  ELSE LET e == RefRunEnd(line, i)
       IN <<RefLiterals(line, i, e)>> \o RefRunsFrom(line, e + 1)

RefRuns(line) == RefRunsFrom(line, 1)

IsNonEmpty(t) == t # <<>>

\* a scan step is being taken on character tk.line[tk.pos]
TokStepTaken == ~tk.done /\ tk'.pos = tk.pos + 1

(***************************************************************************)
(* C1: TokenizeCommandLine returns no token list exactly when, after the   *)
(* last character has been scanned, escape_next is still set or a single   *)
(* or a double quote is still open (which is when the line ends in a       *)
(* backslash that escapes nothing or leaves a quote unclosed); every other *)
(* line returns a token list.                                              *)
(***************************************************************************)
C1_FailsExactlyWhenOpenAtEnd ==
  tk.done =>
    /\ tk.pos = Len(tk.line) + 1
    /\ ~tk.tokens_or.has_value
         <=> (tk.st.escape_next \/ tk.st.in_single_quote \/ tk.st.in_double_quote)
    /\ tk.st.escape_next <=> RefDanglingEscape(tk.line)
    /\ (tk.st.in_single_quote \/ tk.st.in_double_quote) <=> RefQuoteOpenAtEnd(tk.line)
    /\ tk.tokens_or = TokenizeCommandLine(tk.line)

\* a line ending in a dangling escape has been rejected, with both quotes closed
C1_Witness ==
  /\ tk.done
  /\ tk.line = <<97, Backslash>>
  /\ tk.st.escape_next /\ ~tk.st.in_single_quote /\ ~tk.st.in_double_quote
  /\ ~tk.tokens_or.has_value

(***************************************************************************)
(* C2: inside a single-quoted section every character other than a single  *)
(* quote, a backslash included, is appended literally to the current token *)
(* and starts no escape.                                                   *)
(***************************************************************************)
C2_SingleQuoteAllLiteral ==
  [][(TokStepTaken /\ tk.st.in_single_quote /\ tk.line[tk.pos] # SingleQuote)
       => /\ tk'.st.current = Append(tk.st.current, tk.line[tk.pos])
          /\ ~tk'.st.escape_next]_vars

(***************************************************************************)
(* C3 as stated: the tokens of a successfully parsed line are, in order,   *)
(* the maximal runs between unquoted, unescaped whitespace with the quote  *)
(* characters and escaping backslashes removed.                            *)
(***************************************************************************)
C3_TokensAreAllRuns ==
  (tk.done /\ tk.tokens_or.has_value) => tk.tokens_or.value = RefRuns(tk.line)

(***************************************************************************)
(* C3 amended: the tokens of a successfully parsed line are, in order,     *)
(* those maximal runs that are not empty once the quote characters and     *)
(* escaping backslashes are removed; whitespace inside quotes stays in its *)
(* token; a line with no such run (empty, whitespace only) gives <<>>.     *)
(***************************************************************************)
C3_TokensAreNonEmptyRuns ==
  (tk.done /\ tk.tokens_or.has_value)
    => /\ tk.tokens_or.value = SelectSeq(RefRuns(tk.line), IsNonEmpty)
       /\ (\A i \in 1..Len(tk.line) : RefIsWhitespace(tk.line[i]))
            => tk.tokens_or.value = <<>>

\* "a a" in double quotes is one token with the space in it
C3_Witness ==
  /\ tk.done
  /\ tk.line = <<DoubleQuote, 97, Space, 97, DoubleQuote>>
  /\ tk.tokens_or = Some(<< <<97, Space, 97>> >>)

(***************************************************************************)
(* C4: outside quotes and inside double quotes, a backslash that is not    *)
(* itself escaped is not added to the output and only sets escape_next;    *)
(* the character after it is appended to the current token whatever it is, *)
(* splitting no token and opening or closing no quote.                     *)
(***************************************************************************)
C4_BackslashEscapesNext ==
  [][(TokStepTaken /\ ~tk.st.in_single_quote)
       => /\ (~tk.st.escape_next /\ tk.line[tk.pos] = Backslash)
               => tk'.st = [tk.st EXCEPT !.escape_next = TRUE]
          /\ tk.st.escape_next
               => tk'.st = [tk.st EXCEPT !.current = Append(@, tk.line[tk.pos]),
                                         !.escape_next = FALSE]]_vars

\* a\ a is the one token "a a", and "\"" inside double quotes is the token "
C4_Witness ==
  /\ tk.done
  /\ \/ /\ tk.line = <<97, Backslash, Space, 97>>
        /\ tk.tokens_or = Some(<< <<97, Space, 97>> >>)
     \/ /\ tk.line = <<DoubleQuote, Backslash, DoubleQuote, DoubleQuote>>
        /\ tk.tokens_or = Some(<< <<DoubleQuote>> >>)

(***************************************************************************)
(* What the filesystem holds, read off the tree itself (not off the walks) *)
(***************************************************************************)
\* p lies strictly below root
RefBelow(root, p) == Len(p) > Len(root) /\ SubSeq(p, 1, Len(root)) = root

\* every directory from root down to the parent of p can be listed
RefReached(tree, root, p) ==
  \A k \in Len(root)..(Len(p) - 1) : Listable(tree, SubSeq(p, 1, k))

RECURSIVE RefSumSizes(_)
RefSumSizes(S) ==
  IF S = {} THEN 0
  ELSE LET e == CHOOSE x \in S : TRUE IN e.size + RefSumSizes(S \ {e})

\* the regular files below root whose size can be read
RefFilesBelow(tree, root) ==
  {e \in tree : RefBelow(root, e.path) /\ e.kind = "file" /\ e.size_ok}

RefTotalOfAll(tree, root) == RefSumSizes(RefFilesBelow(tree, root))

RefTotalOfReached(tree, root) ==
  RefSumSizes({e \in RefFilesBelow(tree, root) : RefReached(tree, root, e.path)})

\* the name a row shows for entry e: a directory's with "/" after it
RefShownName(e) == IF e.kind = "dir" THEN BaseName(e.path) \o <<Slash>> ELSE BaseName(e.path)

\* the entry of the current directory that a row of ls is about
RowEntry(item) == CHOOSE e \in Children(fs, cwd) : RefShownName(e) = item.name

\* a printed column as a number, "-" counting as 0
ColumnValue(col) == IF col.dash THEN 0 ELSE col.num

LsTable(mode) == out.cmd = "ls" /\ out.msg = "table" /\ out.mode = mode

\* the rows of ls are about distinct entries of the current directory
LsRowsAreEntries ==
  /\ \A i \in 1..Len(out.items) :
       \E e \in Children(fs, cwd) : RefShownName(e) = out.items[i].name
  /\ \A i, j \in 1..Len(out.items) : out.items[i].name = out.items[j].name => i = j

\* the size column of a row of ls -s: a file's size, "-" when it cannot be read
\* or the entry is neither file nor directory, a directory's total
RowSizeIsEntrySize(item) ==
  LET e == RowEntry(item)
  IN item.size = IF e.kind = "dir" THEN Shown(RefTotalOfReached(fs, e.path))
                 ELSE IF e.kind = "file" /\ e.size_ok THEN Shown(e.size)
                 ELSE Dash

\* a directory with nothing in it; one that can be listed and has nothing in it
RefIsEmptyDir(e) == e.kind = "dir" /\ Children(fs, e.path) = {}
RefIsFoundEmpty(e) == e.kind = "dir" /\ e.listable /\ Children(fs, e.path) = {}

(***************************************************************************)
(* C5 as stated: in the output of ls -s every empty directory comes after  *)
(* every entry that is not one; within each group the rows are in          *)
(* descending order of size, rows of equal size in ascending name order.   *)
(***************************************************************************)
C5_EmptyDirsLastThenSizeThenName ==
  LsTable("kSortSize") =>
    \A i, j \in 1..Len(out.items) :
      i < j =>
        LET a == out.items[i]
            b == out.items[j]
        IN /\ ~(RefIsEmptyDir(RowEntry(a)) /\ ~RefIsEmptyDir(RowEntry(b)))
           /\ (RefIsEmptyDir(RowEntry(a)) <=> RefIsEmptyDir(RowEntry(b)))
                => /\ ColumnValue(a.size) >= ColumnValue(b.size)
                   /\ ColumnValue(a.size) = ColumnValue(b.size) => StringLess(a.name, b.name)

(***************************************************************************)
(* C5 amended: in the output of ls -s every directory found empty (it can  *)
(* be listed and holds nothing) comes after every other entry, a directory *)
(* that cannot be listed counting as not empty; within each group the rows *)
(* are in descending order of the size shown ("-" counting as 0, a         *)
(* directory's size being the total of the regular files its walk          *)
(* reaches), rows of equal size in ascending order of the name shown.      *)
(***************************************************************************)
C5_FoundEmptyLastThenSizeThenName ==
  LsTable("kSortSize") =>
    /\ LsRowsAreEntries
    /\ \A i \in 1..Len(out.items) : RowSizeIsEntrySize(out.items[i])
    /\ \A i, j \in 1..Len(out.items) :
         i < j =>
           LET a == out.items[i]
               b == out.items[j]
           IN /\ ~(RefIsFoundEmpty(RowEntry(a)) /\ ~RefIsFoundEmpty(RowEntry(b)))
              /\ (RefIsFoundEmpty(RowEntry(a)) <=> RefIsFoundEmpty(RowEntry(b)))
                   => /\ ColumnValue(a.size) >= ColumnValue(b.size)
                      /\ ColumnValue(a.size) = ColumnValue(b.size)
                           => StringLess(a.name, b.name)

\* three rows: a file of size 1, a directory holding only an empty file, an
\* empty directory last although its name sorts first
C5_Witness ==
  /\ LsTable("kSortSize")
  /\ cwd = RootPath
  /\ Len(out.items) = 3
  /\ out.items[1].name = NameADot /\ out.items[1].size = Shown(1)
  /\ out.items[2].name = <<97, Slash>> /\ out.items[2].size = Shown(0)
  /\ ~RefIsEmptyDir(RowEntry(out.items[2]))
  /\ out.items[3].name = <<66, Slash>> /\ RefIsFoundEmpty(RowEntry(out.items[3]))

C7_DirectorySizeOnlyWhenSortingBySize ==
  (out.cmd = "ls" /\ out.msg = "table") =>
    /\ out.mode \in {"kNormal", "kSortTime"} =>
         /\ out.size_calls = 0
         /\ \A i \in 1..Len(out.items) :
              RowEntry(out.items[i]).kind = "dir" => out.items[i].size = Dash
    /\ \A i \in 1..Len(out.items) :
         (RowEntry(out.items[i]).kind = "dir" /\ ~out.items[i].size.dash)
           => out.mode = "kSortSize"

\* ls -t has listed a directory that holds a file of size 1, with size "-"
C7_Witness ==
  /\ LsTable("kSortTime")
  /\ \E i \in 1..Len(out.items) :
       /\ RowEntry(out.items[i]).kind = "dir"
       /\ RefTotalOfAll(fs, RowEntry(out.items[i]).path) > 0
       /\ out.items[i].size = Dash

(***************************************************************************)
(* C8: for the total t of the directory given to du, the report is         *)
(* floor((t + 524,288) / 1,048,576) MB when t >= 1,048,576 and             *)
(* floor((t + 512) / 1,024) KB otherwise: the nearest whole unit, a half   *)
(* rounding up; 1,048,576 gives 1 MB, 1,500 and 1,048 give 1 KB.           *)
(***************************************************************************)
C8_DuRoundsToNearestUnit ==
  (out.cmd = "du" /\ out.msg = "Total size") =>
    LET t == out.bytes
        unit == IF out.unit = "MB" THEN 1048576 ELSE 1024
    IN /\ t = RefTotalOfReached(fs, Resolve(fs, cwd, out.arg).path)
       /\ out.unit \in {"KB", "MB"}
       /\ out.unit = "MB" <=> t >= 1048576
       /\ t >= 1048576 => out.value = (t + 524288) \div 1048576
       /\ t < 1048576 => out.value = (t + 512) \div 1024
       /\ 2 * out.value * unit - unit <= 2 * t
       /\ 2 * t < 2 * out.value * unit + unit
       /\ t = 1048576 => (out.value = 1 /\ out.unit = "MB")
       /\ t \in {1048, 1500} => (out.value = 1 /\ out.unit = "KB")

\* du of a directory of a megabyte and a half less one byte has reported 1 MB
C8_Witness ==
  /\ out.cmd = "du" /\ out.msg = "Total size"
  /\ out.bytes = 1572863
  /\ out.value = 1 /\ out.unit = "MB"

(***************************************************************************)
(* C9 as stated: CalculateDirectorySizeBytes(root) is the sum of the sizes *)
(* of all regular files below root at every depth, a file whose size       *)
(* cannot be read counting zero; seen in du's total and in the directory   *)
(* rows of ls -s.                                                          *)
(***************************************************************************)
C9_TotalOfAllFilesBelow ==
  /\ (out.cmd = "du" /\ out.msg = "Total size")
       => out.bytes = RefTotalOfAll(fs, Resolve(fs, cwd, out.arg).path)
  /\ LsTable("kSortSize") =>
       \A i \in 1..Len(out.items) :
         RowEntry(out.items[i]).kind = "dir"
           => out.items[i].size_bytes = RefTotalOfAll(fs, RowEntry(out.items[i]).path)

(***************************************************************************)
(* C9 amended: CalculateDirectorySizeBytes(root) is the sum of the sizes   *)
(* of the regular files below root, at every depth, that lie in            *)
(* directories the walk can list: nothing below a directory that cannot be *)
(* listed is counted; directories, other entries and files whose size      *)
(* cannot be read count zero, and the command reports the total as usual.  *)
(***************************************************************************)
C9_TotalOfFilesReached ==
  /\ (out.cmd = "du" /\ Resolve(fs, cwd, out.arg).ok
        /\ IsDirectory(fs, Resolve(fs, cwd, out.arg).path))
       => /\ out.msg = "Total size"
          /\ out.bytes = RefTotalOfReached(fs, Resolve(fs, cwd, out.arg).path)
  /\ LsTable("kSortSize") =>
       \A i \in 1..Len(out.items) :
         RowEntry(out.items[i]).kind = "dir"
           => out.items[i].size_bytes = RefTotalOfReached(fs, RowEntry(out.items[i]).path)

\* du has counted a file two levels below its directory and left out a file
\* whose size cannot be read
C9_Witness ==
  /\ out.cmd = "du" /\ out.msg = "Total size" /\ out.bytes > 0
  /\ LET root == Resolve(fs, cwd, out.arg).path
     IN /\ \E e \in RefFilesBelow(fs, root) : Len(e.path) >= Len(root) + 2 /\ e.size > 0
        /\ \E e \in fs : RefBelow(root, e.path) /\ e.kind = "file" /\ ~e.size_ok

(***************************************************************************)
(* Case-insensitive containment, letter by letter                          *)
(***************************************************************************)
RefIsLetter(c) == c \in 65..90 \/ c \in 97..122

RefSameIgnoringCase(x, y) ==
  x = y \/ (RefIsLetter(x) /\ RefIsLetter(y) /\ (x - y = 32 \/ y - x = 32))

RefContainsIgnoringCase(name, k) ==
  \E o \in 0..(Len(name) - Len(k)) :
    \A j \in 1..Len(k) : RefSameIgnoringCase(name[o + j], k[j])

SearchDone == out.cmd = "search" /\ out.msg \in {"No results found", "Search results"}

ReportedPaths == {out.results[i].path : i \in 1..Len(out.results)}

(***************************************************************************)
(* C10 as stated: search k reports exactly the entries at any depth        *)
(* strictly below the current directory whose own base name contains k,    *)
(* case ignored; never an entry whose base name does not, never the        *)
(* current directory.                                                      *)
(***************************************************************************)
C10_ReportsAllMatchesBelow ==
  SearchDone =>
    /\ ReportedPaths =
         {e.path : e \in {x \in fs : /\ RefBelow(cwd, x.path)
                                     /\ RefContainsIgnoringCase(BaseName(x.path), out.arg)}}
    /\ cwd \notin ReportedPaths

(***************************************************************************)
(* C10 amended: search k reports, each once, exactly the entries at any    *)
(* depth strictly below the current directory that lie in directories the  *)
(* walk can list and whose own base name contains k, case ignored; nothing *)
(* below a directory that cannot be listed is reported; never an entry     *)
(* whose base name does not contain k, never the current directory.        *)
(***************************************************************************)
C10_ReportsMatchesReached ==
  SearchDone =>
    /\ ReportedPaths =
         {e.path : e \in {x \in fs : /\ RefBelow(cwd, x.path)
                                     /\ RefReached(fs, cwd, x.path)
                                     /\ RefContainsIgnoringCase(BaseName(x.path), out.arg)}}
    /\ Len(out.results) = Cardinality(ReportedPaths)
    /\ cwd \notin ReportedPaths
    /\ \A i \in 1..Len(out.results) :
         out.results[i].is_dir <=> IsDirectory(fs, out.results[i].path)

\* search A in a directory below the root has reported its directory "a" and
\* not a/B, at the second level below
C10_Witness ==
  /\ SearchDone
  /\ out.arg = <<65>>
  /\ cwd # RootPath
  /\ cwd \o <<NameA>> \in ReportedPaths
  /\ Exists(fs, cwd \o <<NameA, NameUpperB>>)
  /\ cwd \o <<NameA, NameUpperB>> \notin ReportedPaths

(***************************************************************************)
(* C16 as stated: a run of ls, in any mode, changes neither the filesystem *)
(* nor the current directory; run again at once it prints the same output, *)
(* and for ls -s and ls -t it prints the same output whatever the order in *)
(* which the children are enumerated the second time (for plain ls: when   *)
(* they are enumerated in the same order as the first time).               *)
(***************************************************************************)
C16_LsChangesNothingAndRepeats ==
  [][(pc = "prompt" /\ out'.cmd = "ls")
       => LET tokens == TokensOf[Head(stdin)].value
          IN /\ fs' = fs
             /\ cwd' = cwd
             /\ \E ord \in EnumOrders :
                  \A again \in IF LsMode(tokens) = "kNormal" THEN {ord} ELSE EnumOrders :
                    \A clock_drift \in ClockReads :
                      out' = HandleLsCommand(fs', cwd', tokens, again, clock_drift)]_vars

(***************************************************************************)
(* C18 as stated: an error on one entry during a walk (search, the size    *)
(* aggregator behind du and ls -s, the listing of ls) never ends the walk: *)
(* only what cannot be opened is left out, and every entry below the start *)
(* that lies in directories that can be opened is reported by search, and  *)
(* every such regular file is counted in the total.                        *)
(***************************************************************************)
C18_ErrorLeavesOutOnlyOneEntry ==
  /\ SearchDone =>
       \A x \in fs :
         (RefBelow(cwd, x.path) /\ RefReached(fs, cwd, x.path)
            /\ RefContainsIgnoringCase(BaseName(x.path), out.arg))
           => x.path \in ReportedPaths
  /\ (out.cmd = "du" /\ out.msg = "Total size")
       => out.bytes = RefTotalOfReached(fs, Resolve(fs, cwd, out.arg).path)
  /\ LsTable("kSortSize") =>
       \A i \in 1..Len(out.items) :
         RowEntry(out.items[i]).kind = "dir"
           => out.items[i].size_bytes = RefTotalOfReached(fs, RowEntry(out.items[i]).path)
  /\ (out.cmd = "ls" /\ out.msg = "table" /\ Listable(fs, cwd))
       => \A e \in Children(fs, cwd) :
            \E i \in 1..Len(out.items) : out.items[i].name = RefShownName(e)

(***************************************************************************)
(* What a step of the command loop is about, read off the input itself     *)
(***************************************************************************)
\* the line "cmd arg" and the line "cmd arg1 arg2"
RefLine1(cmd, arg) == cmd \o <<Space>> \o arg
RefLine2(cmd, arg1, arg2) == cmd \o <<Space>> \o arg1 \o <<Space>> \o arg2

\* main is about to read line at its prompt
RefReads(line) == pc = "prompt" /\ stdin # <<>> /\ Head(stdin) = line

\* the line after the one about to be read is there, and is exactly "y"
RefAnswerIsThere == Len(stdin) >= 2
RefAnswerIsYes == Len(stdin) >= 2 /\ stdin[2] = <<121>>

\* the entries of a tree outside the paths P
RefOutside(tree, P) == {e \in tree : e.path \notin P}

\* tree t2 is tree t1 without the entry at p, nothing else changed but the
\* modification time of the directory p is in
RefRemoved(t1, t2, p) ==
  /\ ~Exists(t2, p)
  /\ RefOutside(t2, {Parent(p)}) = RefOutside(t1, {p, Parent(p)})
  /\ {e.path : e \in t2} = {e.path : e \in t1} \ {p}

(***************************************************************************)
(* C11: rm name on an existing regular file removes the file, and nothing  *)
(* else, only when the line read at the confirmation prompt is exactly y;  *)
(* for every other answer and for end of input at the prompt the           *)
(* filesystem is left as it was.                                           *)
(***************************************************************************)
C11_RmRemovesOnlyOnYes ==
  [][\A n \in Names :
       (RefReads(RefLine1(CmdRm, n)) /\ IsRegularFile(fs, Append(cwd, n)))
         => /\ out'.cmd = "rm" /\ out'.asked
            /\ ~RefAnswerIsYes => fs' = fs
            /\ RefAnswerIsYes =>
                 \/ RefRemoved(fs, fs', Append(cwd, n))
                 \/ fs' = fs /\ out'.msg = "Failed to delete file"
            /\ cwd' = cwd]_vars

\* rm a has asked, and the file a of the starting directory is gone
C11_Witness ==
  /\ out.cmd = "rm" /\ out.asked /\ out.msg = ""
  /\ cwd = RootPath /\ out.arg = NameA /\ ~Exists(fs, <<NameA>>)

\* where cp n m and mv n m, typed in the current directory, put their result:
\* under the name n inside m when m is a directory, at m otherwise
RefDestination(n, m) ==
  IF IsDirectory(fs, Append(cwd, m)) THEN Append(Append(cwd, m), n) ELSE Append(cwd, m)

\* tree t2 is tree t1 with a regular file at dst that has the size of src, and
\* nothing else changed but the modification time of the directory dst is in
RefCopied(t1, t2, src, dst) ==
  /\ IsRegularFile(t2, dst)
  /\ Lookup(t2, dst).size = Lookup(t1, src).size
  /\ Lookup(t2, dst).size_ok = Lookup(t1, src).size_ok
  /\ RefOutside(t2, {dst, Parent(dst)}) = RefOutside(t1, {dst, Parent(dst)})
  /\ {e.path : e \in t2} = {e.path : e \in t1} \cup {dst}

(***************************************************************************)
(* C12: cp src dst, with src a regular file, asks for confirmation only    *)
(* when its destination already exists as something other than a           *)
(* directory; it then overwrites the destination only when the answer is   *)
(* exactly y and leaves the filesystem as it was for every other answer    *)
(* and for end of input; when the destination does not exist it copies     *)
(* without asking.                                                         *)
(***************************************************************************)
C12_CpAsksBeforeOverwriting ==
  [][\A n, m \in Names :
       LET src == Append(cwd, n)
           dst == RefDestination(n, m)
       IN (RefReads(RefLine2(CmdCp, n, m)) /\ IsRegularFile(fs, src))
            => /\ out'.cmd = "cp"
               /\ out'.asked <=> (Exists(fs, dst) /\ ~IsDirectory(fs, dst))
               /\ (out'.asked /\ ~RefAnswerIsYes) => fs' = fs
               /\ (out'.asked /\ RefAnswerIsYes) =>
                    \/ RefCopied(fs, fs', src, dst)
                    \/ fs' = fs /\ out'.msg = "Invalid target path"
               /\ ~Exists(fs, dst) =>
                    \/ RefCopied(fs, fs', src, dst) /\ stdin' = Tail(stdin)
                    \/ fs' = fs /\ out'.msg = "Invalid target path"
               /\ IsDirectory(fs, dst) => fs' = fs /\ out'.msg = "Invalid target path"
               /\ cwd' = cwd]_vars

\* cp a a. has asked, and a., empty at the start, now has the one byte of a
C12_Witness ==
  /\ out.cmd = "cp" /\ out.asked /\ out.msg = "" /\ out.arg = NameADot
  /\ cwd = RootPath
  /\ IsRegularFile(fs, <<NameADot>>) /\ IsRegularFile(fs, <<NameA>>)
  /\ Lookup(fs, <<NameADot>>).size = 1 /\ Lookup(fs, <<NameA>>).size = 1

\* the line main is about to read has exit as its first token
RefReadsExit ==
  /\ pc = "prompt" /\ stdin # <<>>
  /\ TokensOf[Head(stdin)].has_value
  /\ TokensOf[Head(stdin)].value # <<>>
  /\ TokensOf[Head(stdin)].value[1] = CmdExit

(***************************************************************************)
(* C13: the command loop ends only when it reads the exit command or finds *)
(* standard input at its end, and it does end then; no other line, whether *)
(* its command fails, is unknown, is malformed or is refused at a prompt,  *)
(* ends the loop.                                                          *)
(***************************************************************************)
C13_LoopEndsOnlyOnExitOrEof ==
  [][pc = "prompt" =>
       /\ pc' = "exited" <=> (stdin = <<>> \/ RefReadsExit)
       /\ pc' # "exited" => pc' = "prompt"]_vars

\* the loop is back at its prompt after a command has failed
C13_Witness ==
  /\ pc = "prompt"
  /\ out.cmd \in {"rmdir", "cp", "mv", "cd", "rm", "unknown", "parse"}
  /\ out.msg \notin {"", "table"}

\* the line main is about to read has cd as its first token
RefReadsCd ==
  /\ pc = "prompt" /\ stdin # <<>>
  /\ TokensOf[Head(stdin)].has_value
  /\ TokensOf[Head(stdin)].value # <<>>
  /\ TokensOf[Head(stdin)].value[1] = CmdCd

(***************************************************************************)
(* C14: the current working directory changes only in a step that reads a  *)
(* cd command, names an existing directory and whose chdir succeeds; every *)
(* other command, and every cd that reports an error, leaves it as it was. *)
(***************************************************************************)
C14_OnlyCdChangesCwd ==
  [][/\ cwd' # cwd =>
          /\ RefReadsCd
          /\ out'.cmd = "cd" /\ out'.msg = ""
          /\ IsDirectory(fs, cwd')
     /\ out'.cmd # "cd" => cwd' = cwd
     /\ (out'.cmd = "cd" /\ out'.msg # "") => cwd' = cwd
     /\ out'.cmd = "cd" => fs' = fs]_vars

\* cd B has entered directory B, and a later command that changes the
\* filesystem has run there
C14_Witness ==
  /\ cwd = <<NameUpperB>>
  /\ out.cmd \in {"touch", "mkdir", "rm", "cp", "mv"} /\ out.msg = ""
  /\ \E e \in fs : Parent(e.path) = cwd /\ e.mtime = Now

\* plain ls has printed its table
RefPlainLsDone == out.cmd = "ls" /\ out.msg = "table" /\ out.mode = "kNormal"

\* the rows of the table that are about entry e of the current directory
RefRowsOf(e) == {i \in 1..Len(out.items) : out.items[i].name = RefShownName(e)}

\* the table has exactly one row for each entry in es and no other row
RefOneRowEach(es) ==
  /\ Len(out.items) = Cardinality(es)
  /\ \A e \in es : Cardinality(RefRowsOf(e)) = 1

\* the row of a regular file says File and its byte size, the row of a
\* directory says Dir and "-"
RefRowAsStated(e, item) ==
  /\ e.kind = "file" => item.type = "File" /\ item.size = Shown(e.size)
  /\ e.kind = "dir" => item.type = "Dir" /\ item.size = Dash

\* the same, with "-" for a file whose size cannot be read and for an entry
\* that is neither file nor directory, which is shown as a File
RefRowAsPrinted(e, item) ==
  /\ e.kind = "file" =>
       item.type = "File" /\ item.size = (IF e.size_ok THEN Shown(e.size) ELSE Dash)
  /\ e.kind = "dir" => item.type = "Dir" /\ item.size = Dash
  /\ e.kind \notin {"file", "dir"} => item.type = "File" /\ item.size = Dash

C17_RmdirOnlyEmptyDirectory ==
  [][\A n \in Names :
       LET p == Append(cwd, n)
       IN RefReads(RefLine1(CmdRmdir, n))
            => /\ out'.cmd = "rmdir"
               /\ fs' # fs =>
                    /\ IsDirectory(fs, p) /\ Children(fs, p) = {}
                    /\ RefRemoved(fs, fs', p)
                    /\ out'.msg = ""
               /\ ~Exists(fs, p) => fs' = fs /\ out'.msg = "Directory not found"
               /\ (Exists(fs, p) /\ ~IsDirectory(fs, p))
                    => fs' = fs /\ out'.msg = "Not a directory"
               /\ (IsDirectory(fs, p) /\ Children(fs, p) # {})
                    => fs' = fs /\ out'.msg = "Directory not empty"
               /\ fs' = fs => out'.msg # ""
               /\ cwd' = cwd]_vars

\* rmdir B has removed the directory B of the starting directory
C17_Witness ==
  /\ out.cmd = "rmdir" /\ out.msg = "" /\ out.arg = NameUpperB
  /\ cwd = RootPath /\ ~Exists(fs, <<NameUpperB>>)

\* tree t2 has at dst what tree t1 had at src, with everything below it, and
\* has nothing at src
RefMoved(t1, t2, src, dst) ==
  /\ ~Exists(t2, src)
  /\ \A e \in t1 :
       IsPrefix(src, e.path) =>
         \E moved \in t2 :
           /\ moved.path = dst \o SubSeq(e.path, Len(src) + 1, Len(e.path))
           /\ moved.kind = e.kind
           /\ moved.size = e.size /\ moved.size_ok = e.size_ok

\* in this step mv found that rename failed, and no copy and no delete failed
RefRenameAloneFailed == out'.cmd = "mv" /\ "rename" \in out'.failed /\ out'.failed = {"rename"}

(***************************************************************************)
(* C19 as stated: when rename fails for mv src dst with an existing source *)
(* (a file or a directory) and a valid, not yet existing destination, mv   *)
(* completes the move by copy then delete: afterwards the destination      *)
(* exists with the source's content and the source no longer exists.       *)
(***************************************************************************)
C19_MvFallsBackForAnySource ==
  [][\A n, m \in Names :
       LET src == Append(cwd, n)
           dst == RefDestination(n, m)
       IN (/\ RefReads(RefLine2(CmdMv, n, m))
           /\ Exists(fs, src) /\ ~Exists(fs, dst)
           /\ RefRenameAloneFailed)
            => RefMoved(fs, fs', src, dst)]_vars

\* the lines of standard input after the line being read and the one after it
RefAfterAnswer == SubSeq(stdin, 3, Len(stdin))

\* the line being read brings rm or cp to its confirmation prompt: rm n on a
\* regular file, cp n m on a regular file with a destination that exists and
\* is no directory
RefReachesPrompt ==
  \/ \E n \in Names :
       RefReads(RefLine1(CmdRm, n)) /\ IsRegularFile(fs, Append(cwd, n))
  \/ \E n, m \in Names :
       /\ RefReads(RefLine2(CmdCp, n, m)) /\ IsRegularFile(fs, Append(cwd, n))
       /\ Exists(fs, RefDestination(n, m)) /\ ~IsDirectory(fs, RefDestination(n, m))

(***************************************************************************)
(* C20: whenever rm on an existing regular file, or cp onto an existing    *)
(* destination file, reaches its confirmation prompt, the next line of the *)
(* input is consumed as the answer in the same step and is never read at   *)
(* the command prompt: main goes on with the line after it, and an answer  *)
(* other than y, be it a command, has no effect of its own. At end of      *)
(* input there is no answer, and nothing is changed.                       *)
(***************************************************************************)
C20_AnswerLineIsConsumed ==
  [][RefReachesPrompt =>
       /\ out'.cmd \in {"rm", "cp"} /\ out'.asked
       /\ pc' = "prompt"
       /\ stdin' = RefAfterAnswer
       /\ ~RefAnswerIsYes => fs' = fs /\ cwd' = cwd]_vars

\* rm a was answered by a line other than y, a command or not: a and a. are
\* both still there, and the line after the answer is the next to be read
C20_Witness ==
  /\ out.cmd = "rm" /\ out.asked /\ out.arg = NameA /\ pc = "prompt"
  /\ cwd = RootPath
  /\ IsRegularFile(fs, <<NameA>>) /\ IsRegularFile(fs, <<NameADot>>)
  /\ Len(stdin) = 1 /\ Head(stdin) \in CoreLines

(***************************************************************************)
(* C21 as stated: mv src dst, with an existing source, never overwrites or *)
(* removes an existing entry at its resolved destination (dst, or dst/base *)
(* name of src when dst is an existing directory): whenever an entry is    *)
(* already there, mv reports "Invalid target path" and leaves the whole    *)
(* filesystem, source included, unchanged.                                 *)
(***************************************************************************)
C21_MvNeverOverwrites ==
  [][\A n, m \in Names :
       LET src == Append(cwd, n)
           dst == RefDestination(n, m)
       IN (/\ RefReads(RefLine2(CmdMv, n, m))
           /\ Exists(fs, src)
           /\ Present(fs, dst))
            => /\ out'.cmd = "mv" /\ out'.msg = "Invalid target path"
               /\ fs' = fs]_vars

\* argument texts that hold nothing but empty quoted strings and blanks
RefEmptyArguments ==
  {<<SingleQuote, SingleQuote>>,
   <<DoubleQuote, DoubleQuote>>,
   <<SingleQuote, SingleQuote, DoubleQuote, DoubleQuote>>,
   <<DoubleQuote, DoubleQuote, Space>>,
   <<SingleQuote, SingleQuote, Tab>>,
   <<SingleQuote, SingleQuote, Space, DoubleQuote>> \o <<DoubleQuote>>}

\* the line is cmd followed by such an argument text
RefHasEmptyArgument(line, cmd) ==
  \E q \in RefEmptyArguments : line = cmd \o <<Space>> \o q

(***************************************************************************)
(* C22: every token returned by TokenizeCommandLine is non-empty; an empty *)
(* quoted string ('' or "") gives no token, so that the lines touch '' and *)
(* search "" come to their handlers with the command as their one token    *)
(* and are reported as missing the argument. No handler is ever given an   *)
(* empty argument.                                                         *)
(***************************************************************************)
C22_TokensAreNeverEmpty ==
  (tk.done /\ tk.tokens_or.has_value)
    => /\ \A i \in 1..Len(tk.tokens_or.value) : tk.tokens_or.value[i] # <<>>
       /\ RefHasEmptyArgument(tk.line, CmdTouch)
            => /\ tk.tokens_or.value = <<CmdTouch>>
               /\ out.cmd # "none" => out.cmd = "touch" /\ out.msg = "Missing filename"
       /\ RefHasEmptyArgument(tk.line, CmdSearch)
            => /\ tk.tokens_or.value = <<CmdSearch>>
               /\ out.cmd # "none" => out.cmd = "search" /\ out.msg = "Missing keyword"
       /\ out.cmd \in {"touch", "search"} => out.arg # <<>> \/ Len(tk.tokens_or.value) = 1

\* the line search "" has been handled, and was reported as missing its keyword
C22_Witness ==
  /\ tk.done
  /\ tk.line = CmdSearch \o <<Space, DoubleQuote, DoubleQuote>>
  /\ tk.tokens_or = Some(<<CmdSearch>>)
  /\ out.cmd = "search" /\ out.msg = "Missing keyword"

====
